---- MODULE Spec2Model ----
(***************************************************************************)
(* Planar steel moment frame analysis: topology generation, load           *)
(* aggregation and the session state of the two front ends                 *)
(* (src/test-streamlit.py with src/model/structural_analysis.py, and       *)
(* src/model/steel_frame_analyzer.py).                                     *)
(*                                                                         *)
(* Units of the model (all quantities are integers):                       *)
(*   lengths and coordinates   metres                                      *)
(*   sidebar texts             millimetres (the code divides by 1000)      *)
(*   unit weight               0.1 kg/m   (49.9 kg/m is 499)               *)
(*   distributed loads         1e-6 kN/m  (6.3 kN/m is 6300000)            *)
(*   nodal forces              1e-6 kN                                     *)
(*   section depth, width, thicknesses   mm                                *)
(*   section moduli            0.1 cm3  (1e-7 m3)                          *)
(*   radii of gyration         0.01 cm  (1e-4 m)                           *)
(*   slenderness               whole numbers (floor)                       *)
(*   stability factor phi and normalized slenderness   1e-4                *)
(*   member forces             kN and kN m;  strengths  MPa                *)
(*   utilisation ratios        1e-3                                        *)
(* so that unitWeight * 9.81 / 1000 [kN/m] is exactly weight10 * 981.      *)
(* Floating-point values are modelled in fixed point with floor division;  *)
(* every intermediate value stays below 2^31.                              *)
(*                                                                         *)
(* The OpenSees engine (openseespy) is outside the repository: the model   *)
(* records the commands the code issues to it (node, fix, element,         *)
(* eleLoad, load) in the record `ops`.                                     *)
(***************************************************************************)
EXTENDS Integers, Sequences, FiniteSets, TLC

VARIABLES
    app,                    \* "fn": direct calls of the topology functions;
                            \* "streamlit" / "tk": a session of that front end
    arg_spans, arg_heights, \* arguments of the direct calls (app = "fn")
    called,                 \* which direct calls have returned (app = "fn")
    catalog_file,           \* the spreadsheet: "present", "missing", "unreadable"
    h_steel_data,           \* the catalog the session loaded at start
    sidebar,                \* the sidebar widgets of the streamlit page
    model_data,             \* st.session_state.model_data (preview topology)
    ops,                    \* the OpenSees domain (module-global of openseespy)
    column_elements,        \* analyzer_state['column_elements'] / self.column_elements
    beam_elements,          \* analyzer_state['beam_elements'] / self.beam_elements
    current_analysis_data,  \* analyzer_state['current_analysis_data']
    beam_loads,             \* override map: beam id -> load
    element_steels,         \* override map: element id -> section name
    node_loads,             \* override map: node id -> <<fx, fy, mz>>
    beam_point_loads,       \* override map: beam id -> sequence of <<pos, fx, fy>>
    status,                 \* outcome reported by the last operation
    nops,                   \* number of user operations since the initial state
    hist,                   \* history: the last override edit(s) and the maps before
    call                    \* a direct call of a library function: its name,
                            \* arguments and, once it returned, its result

topo == <<model_data, ops, column_elements, beam_elements, current_analysis_data>>
maps == <<beam_loads, element_steels, node_loads, beam_point_loads>>
env == <<app, arg_spans, arg_heights, catalog_file, h_steel_data, call>>
vars == <<env, called, sidebar, topo, maps, status, nops, hist>>

----------------------------------------------------------------------------
(* Bounds *)

MaxBays == 2
MaxFloors == 2
\* user operations in one streamlit session
MaxOps == 4
\* user operations in one tkinter session
MaxTkOps == 3

\* entries of spans (m): a negative, a zero and the two of the spec scenario
SpanVals == {0 - 1, 0, 6, 9}
\* entries of heights (m)
HeightVals == {0 - 1, 0, 4, 3}

SeqsUpTo(S, n) == UNION {[1..k -> S] : k \in 0..n}

----------------------------------------------------------------------------
(* Python helpers *)

RECURSIVE SumSeq(_)
\* sum(list)
SumSeq(s) == IF s = <<>> THEN 0 ELSE s[1] + SumSeq(Tail(s))

\* list[:n]
Prefix(s, n) == SubSeq(s, 1, IF n < Len(s) THEN n ELSE Len(s))

RECURSIVE Flatten(_)
\* the bodies of a nested loop, in iteration order
Flatten(ss) == IF ss = <<>> THEN <<>> ELSE ss[1] \o Flatten(Tail(ss))

\* dict.get(key, default)
Get(map, key, default) == IF key \in DOMAIN map THEN map[key] ELSE default

\* x ** 0.5 for the squares the frame geometry produces
Sqrt(n) == CHOOSE r \in 0..n : r * r <= n /\ (r + 1) * (r + 1) > n

SeqToSet(s) == {s[k] : k \in DOMAIN s}

----------------------------------------------------------------------------
(* generate_model_data (src/test-streamlit.py) *)

\* first node loop: for j, h in enumerate(heights): for i, s in enumerate([0] + spans)
\* each entry is one assignment nodes[(i, j)] = (node_id, x, y, z), without node_id
GenFloorNodes(spans, heights) ==
    Flatten([jj \in 1..Len(heights) |->
        [ii \in 1..(Len(spans) + 1) |->
            [key |-> <<ii - 1, jj - 1>>,
             x |-> SumSeq(Prefix(spans, ii - 1)),
             y |-> 0,
             z |-> SumSeq(Prefix(heights, jj - 1))]]])

\* second node loop (top floor): for i, s in enumerate([0] + spans)
GenTopNodes(spans, heights) ==
    [ii \in 1..(Len(spans) + 1) |->
        [key |-> <<ii - 1, Len(heights)>>,
         x |-> SumSeq(Prefix(spans, ii - 1)),
         y |-> 0,
         z |-> SumSeq(heights)]]

\* the dict `nodes`: node_id starts at 1 and is incremented after every
\* assignment, so the k-th assignment stores id k; a later assignment to the
\* same key overwrites the earlier one
GenNodes(spans, heights) ==
    LET asg == GenFloorNodes(spans, heights) \o GenTopNodes(spans, heights)
        last(key) == CHOOSE k \in DOMAIN asg :
                        /\ asg[k].key = key
                        /\ \A m \in DOMAIN asg : asg[m].key = key => m <= k
    IN [key \in {asg[k].key : k \in DOMAIN asg} |->
            <<last(key), asg[last(key)].x, asg[last(key)].y, asg[last(key)].z>>]

\* mutant: columns appended from the top node down to the bottom node
GenColumnsTopDown(nodes, spans, heights) ==
    Flatten([jj \in 1..Len(heights) |->
        [ii \in 1..(Len(spans) + 1) |->
            LET start_node == nodes[<<ii - 1, jj>>]
                end_node == nodes[<<ii - 1, jj - 1>>]
            IN [type |-> "column",
                start |-> start_node[1],
                end |-> end_node[1],
                start_coord |-> <<start_node[2], start_node[3], start_node[4]>>,
                end_coord |-> <<end_node[2], end_node[3], end_node[4]>>]]])

\* column loop: for j in range(len(heights)): for i in range(len(spans) + 1)
GenColumns(nodes, spans, heights) ==
    Flatten([jj \in 1..Len(heights) |->
        [ii \in 1..(Len(spans) + 1) |->
            LET start_node == nodes[<<ii - 1, jj - 1>>]
                end_node == nodes[<<ii - 1, jj>>]
            IN [type |-> "column",
                start |-> start_node[1],
                end |-> end_node[1],
                start_coord |-> <<start_node[2], start_node[3], start_node[4]>>,
                end_coord |-> <<end_node[2], end_node[3], end_node[4]>>]]])

\* mutant: the beam loop starts at floor 0 (range(len(heights) + 1))
GenBeamsFromGround(nodes, spans, heights) ==
    Flatten([jj \in 1..(Len(heights) + 1) |->
        [ii \in 1..Len(spans) |->
            LET start_node == nodes[<<ii - 1, jj - 1>>]
                end_node == nodes[<<ii, jj - 1>>]
            IN [type |-> "beam",
                start |-> start_node[1],
                end |-> end_node[1],
                start_coord |-> <<start_node[2], start_node[3], start_node[4]>>,
                end_coord |-> <<end_node[2], end_node[3], end_node[4]>>]]])

\* beam loop: for j in range(1, len(heights) + 1): for i in range(len(spans))
GenBeams(nodes, spans, heights) ==
    Flatten([jj \in 1..Len(heights) |->
        [ii \in 1..Len(spans) |->
            LET start_node == nodes[<<ii - 1, jj>>]
                end_node == nodes[<<ii, jj>>]
            IN [type |-> "beam",
                start |-> start_node[1],
                end |-> end_node[1],
                start_coord |-> <<start_node[2], start_node[3], start_node[4]>>,
                end_coord |-> <<end_node[2], end_node[3], end_node[4]>>]]])

\* 'id': len(elements) + 1 at every append: the k-th appended element has id k
GenElements(nodes, spans, heights) ==
    LET app_order == GenColumns(nodes, spans, heights) \o GenBeams(nodes, spans, heights)
    IN [k \in DOMAIN app_order |->
            [id |-> k,
             type |-> app_order[k].type,
             start |-> app_order[k].start,
             end |-> app_order[k].end,
             start_coord |-> app_order[k].start_coord,
             end_coord |-> app_order[k].end_coord]]

\* supports: for i in range(len(spans) + 1): supports.append(nodes[(i, 0)][0])
GenSupports(nodes, spans) == [ii \in 1..(Len(spans) + 1) |-> nodes[<<ii - 1, 0>>][1]]

\* the function never raises for lists of numbers: no length check is made
generate_model_data(spans, heights) ==
    LET nodes == GenNodes(spans, heights)
    IN [nodes |-> nodes,
        elements |-> GenElements(nodes, spans, heights),
        supports |-> GenSupports(nodes, spans),
        spans |-> spans,
        heights |-> heights]

----------------------------------------------------------------------------
(* Section catalog and material table *)

\* "HW200×200×8×12", the default of element_steels.get(ele_id, ...)
DefaultSection == "HW200x200x8x12"

\* rows of the embedded table of SteelFrameAnalyzer.load_h_steel_data:
\* A in 0.01 cm2, Ix and Iy in cm4, G in 0.1 kg/m.  The spreadsheet
\* "H型钢规格参数表.xlsx" is data outside the repository's code; the model
\* takes it to hold the same rows.
SectionTable ==
    [n \in {"HW100x100x6x8", "HW200x200x8x12", "HW250x250x9x14"} |->
        CASE n = "HW100x100x6x8" -> [A |-> 2158, Ix |-> 378, Iy |-> 134, G |-> 169]
          [] n = "HW200x200x8x12" -> [A |-> 6353, Ix |-> 4720, Iy |-> 1600, G |-> 499]
          [] n = "HW250x250x9x14" -> [A |-> 9143, Ix |-> 10700, Iy |-> 3650, G |-> 718]]

\* rows of the spreadsheet "H型钢规格参数表.xlsx" with the columns the
\* accessors read: A, Ix, Iy, G as above, H, B, T, Tf in mm, Wx and Wy in
\* 0.1 cm3, rx and ry in 0.01 cm
SpreadsheetTable ==
    [n \in DOMAIN SectionTable |->
        CASE n = "HW100x100x6x8" ->
                [A |-> 2158, Ix |-> 378, Iy |-> 134, G |-> 169,
                 H |-> 100, B |-> 100, T |-> 6, Tf |-> 8,
                 Wx |-> 756, Wy |-> 267, rx |-> 418, ry |-> 248]
          [] n = "HW200x200x8x12" ->
                [A |-> 6353, Ix |-> 4720, Iy |-> 1600, G |-> 499,
                 H |-> 200, B |-> 200, T |-> 8, Tf |-> 12,
                 Wx |-> 4720, Wy |-> 1600, rx |-> 862, ry |-> 502]
          [] n = "HW250x250x9x14" ->
                [A |-> 9143, Ix |-> 10700, Iy |-> 3650, G |-> 718,
                 H |-> 250, B |-> 250, T |-> 9, Tf |-> 14,
                 Wx |-> 8600, Wy |-> 2920, rx |-> 1080, ry |-> 631]]

\* h_steel_data is a table [loaded |-> TRUE, rows |-> ...] or None
None == [loaded |-> FALSE, rows |-> <<>>]
DataFrame(rows) == [loaded |-> TRUE, rows |-> rows]

\* structural_analysis.load_h_steel_data: the table when the file exists and
\* can be read, otherwise None (no return statement is reached when the file
\* is missing; the except branch returns None)
load_h_steel_data(file) ==
    IF file = "present" THEN DataFrame(SpreadsheetTable) ELSE None

\* SteelFrameAnalyzer.load_h_steel_data: the embedded default table when the
\* file is missing, None when reading it raises
tk_load_h_steel_data(file) ==
    CASE file = "present" -> DataFrame(SpreadsheetTable)
      [] file = "missing" -> DataFrame(SectionTable)
      [] OTHER -> None

\* mutant: a name the table does not hold is answered with the table's first
\* row
get_steel_properties_first_row(dimension, hsd) ==
    LET row == hsd.rows["HW100x100x6x8"]
    IN IF hsd.loaded /\ dimension \in DOMAIN hsd.rows
       THEN [area |-> hsd.rows[dimension].A, ix |-> hsd.rows[dimension].Ix,
             iy |-> hsd.rows[dimension].Iy, weight |-> hsd.rows[dimension].G]
       ELSE [area |-> row.A, ix |-> row.Ix, iy |-> row.Iy, weight |-> row.G]

\* the fallback tuple 0.006353, 4.72e-5, 1.6e-5, 49.9
FallbackProperties == [area |-> 6353, ix |-> 4720, iy |-> 1600, weight |-> 499]

\* get_steel_properties(dimension, h_steel_data): area in 1e-6 m2
\* (cm2 / 10000), ix and iy in 1e-8 m4 (cm4 / 1e8), weight in 0.1 kg/m
get_steel_properties(dimension, hsd) ==
    IF ~hsd.loaded THEN FallbackProperties
    ELSE IF dimension \notin DOMAIN hsd.rows THEN FallbackProperties
    ELSE LET row == hsd.rows[dimension]
         IN [area |-> row.A,
             ix |-> row.Ix,
             iy |-> row.Iy,
             weight |-> row.G]

\* the fallback tuples of the other accessors: 0.2, 0.2, 0.008, 0.012 m;
\* 0.000756, 0.000267 m3; 0.0418, 0.0248 m
FallbackGeometry == [h |-> 200, b |-> 200, tw |-> 8, tf |-> 12]
FallbackModulus == [wx |-> 7560, wy |-> 2670]
FallbackRadii == [rx |-> 418, ry |-> 248]

\* get_steel_geometry(dimension, h_steel_data): mm / 1000, kept in mm
get_steel_geometry(dimension, hsd) ==
    IF ~hsd.loaded THEN FallbackGeometry
    ELSE IF dimension \notin DOMAIN hsd.rows THEN FallbackGeometry
    ELSE LET row == hsd.rows[dimension]
         IN [h |-> row.H, b |-> row.B, tw |-> row.T, tf |-> row.Tf]

\* get_steel_section_modulus(dimension, h_steel_data): cm3 / 1e6, in 1e-7 m3
get_steel_section_modulus(dimension, hsd) ==
    IF ~hsd.loaded THEN FallbackModulus
    ELSE IF dimension \notin DOMAIN hsd.rows THEN FallbackModulus
    ELSE LET row == hsd.rows[dimension]
         IN [wx |-> row.Wx, wy |-> row.Wy]

\* get_steel_radii_of_gyration(dimension, h_steel_data): cm / 100, in 1e-4 m
get_steel_radii_of_gyration(dimension, hsd) ==
    IF ~hsd.loaded THEN FallbackRadii
    ELSE IF dimension \notin DOMAIN hsd.rows THEN FallbackRadii
    ELSE LET row == hsd.rows[dimension]
         IN [rx |-> row.rx, ry |-> row.ry]

\* print(f"未找到H型钢规格: {dimension}") / messagebox.showwarning: issued by
\* an accessor exactly when the table is loaded and holds no such row
NotFoundWarning(dimension, hsd) ==
    hsd.loaded /\ dimension \notin DOMAIN hsd.rows

\* mutant: an unknown grade has no yield strength
get_steel_yield_strength_strict(grade) ==
    CASE grade = "Q235B" -> 235
      [] grade = "Q355B" -> 355
      [] OTHER -> 0

\* get_steel_yield_strength(grade): strengths.get(grade, 235), MPa
get_steel_yield_strength(grade) ==
    CASE grade = "Q235B" -> 235
      [] grade = "Q355B" -> 355
      [] OTHER -> 235

\* get_material_properties(grade): 206e6 kN/m2 for every grade, in 1e6 kN/m2
get_material_properties(grade) ==
    CASE grade = "Q235B" -> 206
      [] grade = "Q355B" -> 206
      [] OTHER -> 206

\* 9.81 / 1000 applied to a unit weight in 0.1 kg/m gives 1e-6 kN/m
SelfWeightPerMetre(weight) == weight * 981

----------------------------------------------------------------------------
(* The OpenSees domain *)

\* ops.wipe(); ops.model(...); analyze_result is what the last ops.analyze(1)
\* of the domain returned (0: converged; 0 when none was made)
EmptyDomain ==
    [nodes |-> <<>>, fixes |-> <<>>, elements |-> <<>>,
     eleLoads |-> <<>>, nodalLoads |-> <<>>, analyzed |-> FALSE,
     analyze_result |-> 0]

RECURSIVE SortedKeys(_)
\* the keys of a dict, in ascending order (the order in which the loads of a
\* dict are issued does not change the load case)
SortedKeys(map) ==
    IF DOMAIN map = {} THEN <<>>
    ELSE LET k == CHOOSE k \in DOMAIN map : \A m \in DOMAIN map : k <= m
         IN <<k>> \o SortedKeys([m \in DOMAIN map \ {k} |-> map[m]])

\* cum_heights = [0]; for h in height_list: cum_heights.append(cum_heights[-1] + h)
RECURSIVE CumHeights(_)
CumHeights(height_list) ==
    IF height_list = <<>> THEN <<0>>
    ELSE LET prev == CumHeights(SubSeq(height_list, 1, Len(height_list) - 1))
         IN Append(prev, prev[Len(prev)] + height_list[Len(height_list)])

\* mutant: x_pos += span_list[0] for every node
XPosFirstSpan(span_list, i) == IF i = 0 THEN 0 ELSE i * span_list[1]

\* x_pos when node i (0-based) of a floor is created: x_pos = 0, then
\* x_pos += span_list[i] after each node with i < total_bays
RECURSIVE XPos(_, _)
XPos(span_list, i) ==
    IF i = 0 THEN 0 ELSE XPos(span_list, i - 1) + span_list[i]

\* node loop of analyze_frame_with_ops: ops.node(node_id, x_pos, cum_heights[floor]);
\* node_id starts at 1 and is incremented after every call
OpsNodes(span_list, height_list) ==
    LET calls == Flatten([fl \in 1..(Len(height_list) + 1) |->
                    [c \in 1..(Len(span_list) + 1) |->
                        <<XPos(span_list, c - 1), CumHeights(height_list)[fl]>>]])
    IN [node_id \in DOMAIN calls |-> calls[node_id]]

\* node loop of SteelFrameAnalyzer.analyze_frame: ops.node(node_id, x_pos, floor * height)
TkOpsNodes(span_list, height, floors) ==
    LET calls == Flatten([fl \in 1..(floors + 1) |->
                    [c \in 1..(Len(span_list) + 1) |->
                        <<XPos(span_list, c - 1), (fl - 1) * height>>]])
    IN [node_id \in DOMAIN calls |-> calls[node_id]]

\* mutant: ops.fix(i + 1, 1, 1, 0), a pinned support
OpsFixesPinned(total_nodes_per_floor) ==
    [tag \in {i + 1 : i \in 0..(total_nodes_per_floor - 1)} |-> <<1, 1, 0>>]

\* for i in range(total_nodes_per_floor): ops.fix(i + 1, 1, 1, 1)
OpsFixes(total_nodes_per_floor) ==
    [tag \in {i + 1 : i \in 0..(total_nodes_per_floor - 1)} |-> <<1, 1, 1>>]

\* column loop: for floor in range(floors): for col_idx in range(total_nodes_per_floor)
OpsColumnCalls(floors, total_nodes_per_floor) ==
    Flatten([fl \in 1..floors |->
        [c \in 1..total_nodes_per_floor |->
            [kind |-> "column",
             start_node |-> (fl - 1) * total_nodes_per_floor + (c - 1) + 1,
             end_node |-> ((fl - 1) + 1) * total_nodes_per_floor + (c - 1) + 1]]])

\* mutant: every beam runs from its right node to its left node
OpsBeamCallsReversed(floors, total_bays, total_nodes_per_floor) ==
    Flatten([fl \in 1..floors |->
        [s \in 1..total_bays |->
            LET base_node == fl * total_nodes_per_floor + 1
            IN [kind |-> "beam",
                start_node |-> (base_node + (s - 1)) + 1,
                end_node |-> base_node + (s - 1)]]])

\* beam loop: for floor in range(1, floors + 1): base_node = floor * npf + 1;
\* for span_idx in range(total_bays): start = base_node + span_idx, end = start + 1
OpsBeamCalls(floors, total_bays, total_nodes_per_floor) ==
    Flatten([fl \in 1..floors |->
        [s \in 1..total_bays |->
            LET base_node == fl * total_nodes_per_floor + 1
            IN [kind |-> "beam",
                start_node |-> base_node + (s - 1),
                end_node |-> (base_node + (s - 1)) + 1]]])

\* mutant: the beam loop runs before the column loop
OpsElementsBeamsFirst(floors, total_bays, E, es, hsd) ==
    LET calls == OpsBeamCalls(floors, total_bays, total_bays + 1)
                    \o OpsColumnCalls(floors, total_bays + 1)
    IN [ele_id \in DOMAIN calls |->
            LET props == get_steel_properties(Get(es, ele_id, DefaultSection), hsd)
            IN [kind |-> calls[ele_id].kind,
                start_node |-> calls[ele_id].start_node,
                end_node |-> calls[ele_id].end_node,
                A |-> props.area, E |-> E, Iz |-> props.ix]]

\* the ops.element calls in order; ele_id starts at 1 and is incremented after
\* every call, columns first; the section is element_steels.get(ele_id, default)
OpsElements(floors, total_bays, E, es, hsd) ==
    LET calls == OpsColumnCalls(floors, total_bays + 1)
                    \o OpsBeamCalls(floors, total_bays, total_bays + 1)
    IN [ele_id \in DOMAIN calls |->
            LET props == get_steel_properties(
                            Get(es, ele_id, DefaultSection), hsd)
            IN [kind |-> calls[ele_id].kind,
                start_node |-> calls[ele_id].start_node,
                end_node |-> calls[ele_id].end_node,
                A |-> props.area, E |-> E, Iz |-> props.ix]]

\* column_elements / beam_elements: the ele_id values appended in each loop
ElementIdsOf(elements, kind) ==
    LET n == Cardinality({e \in DOMAIN elements : elements[e].kind = kind})
        first == IF kind = "column" THEN 0
                 ELSE Cardinality({e \in DOMAIN elements : elements[e].kind = "column"})
    IN [k \in 1..n |-> first + k]

----------------------------------------------------------------------------
(* Load application of a solve *)

\* dict[key] = value
Put(map, key, value) ==
    [k \in DOMAIN map \cup {key} |-> IF k = key THEN value ELSE map[k]]

\* mutant: the reset leaves the entry in the dict
DelKeepsEntry(map, key) == map

\* if key in dict: del dict[key]
Del(map, key) == [k \in DOMAIN map \ {key} |-> map[k]]

\* mutant: the self-weight of every beam is that of the default section
BeamUniformLoadsDefaultWeight(beams, default_load, sw, es, bl, hsd) ==
    [k \in DOMAIN beams |->
        LET load_value == Get(bl, beams[k], default_load)
            beam_weight == get_steel_properties(DefaultSection, hsd).weight
        IN [ele |-> beams[k], type |-> "beamUniform",
            fy |-> 0 - (IF sw THEN load_value + SelfWeightPerMetre(beam_weight)
                        ELSE load_value),
            x |-> 0, fx |-> 0]]

\* beam loop: load_value = beam_loads.get(beam_id, default_load); the beam's
\* self-weight is added when include_self_weight;
\* ops.eleLoad('-ele', beam_id, '-type', '-beamUniform', -total_load, 0.0)
BeamUniformLoads(beams, default_load, sw, es, bl, hsd) ==
    [k \in DOMAIN beams |->
        LET beam_id == beams[k]
            load_value == Get(bl, beam_id, default_load)
            beam_weight == get_steel_properties(
                              Get(es, beam_id, DefaultSection),
                              hsd).weight
            total_load == IF sw
                          THEN load_value + SelfWeightPerMetre(beam_weight)
                          ELSE load_value
        IN [ele |-> beam_id, type |-> "beamUniform",
            fy |-> 0 - total_load, x |-> 0, fx |-> 0]]

\* length of an element of the domain from ops.eleNodes and ops.nodeCoord
OpsLength(nodes, elements, ele_id) ==
    LET start_coord == nodes[elements[ele_id].start_node]
        end_coord == nodes[elements[ele_id].end_node]
    IN Sqrt((end_coord[1] - start_coord[1]) * (end_coord[1] - start_coord[1])
            + (end_coord[2] - start_coord[2]) * (end_coord[2] - start_coord[2]))

\* mutant: the column's weight is put on its start (bottom) node
ColumnSelfWeightLoadsAtBase(nodes, elements, cols, sw, es, hsd) ==
    IF ~sw THEN <<>>
    ELSE [k \in DOMAIN cols |->
            [node |-> elements[cols[k]].start_node,
             fx |-> 0,
             fy |-> 0 - SelfWeightPerMetre(
                            get_steel_properties(Get(es, cols[k], DefaultSection), hsd).weight)
                        * OpsLength(nodes, elements, cols[k]),
             mz |-> 0, col |-> cols[k]]]

\* column loop, only when include_self_weight:
\* ops.load(end_node, 0.0, -col_weight * 9.81 / 1000 * length, 0.0);
\* `col` records the column the load comes from (0 for a load of node_loads)
ColumnSelfWeightLoads(nodes, elements, cols, sw, es, hsd) ==
    IF ~sw THEN <<>>
    ELSE [k \in DOMAIN cols |->
            LET col_id == cols[k]
                col_weight == get_steel_properties(
                                 Get(es, col_id, DefaultSection),
                                 hsd).weight
                total_column_load ==
                    SelfWeightPerMetre(col_weight) * OpsLength(nodes, elements, col_id)
            IN [node |-> elements[col_id].end_node,
                fx |-> 0, fy |-> 0 - total_column_load, mz |-> 0, col |-> col_id]]

\* for node_id, (fx, fy, mz) in node_loads.items(): ops.load(node_id, fx, fy, mz).
\* The engine refuses a load on a node the domain does not hold and the call
\* raises: the loads before it are applied, `raised` is set.
UserNodalLoads(nodes, nl) ==
    LET keys == SortedKeys(nl)
        bad == {k \in DOMAIN keys : keys[k] \notin DOMAIN nodes}
        stop == IF bad = {} THEN Len(keys) + 1
                ELSE CHOOSE k \in bad : \A m \in bad : k <= m
    IN [calls |-> [k \in 1..(stop - 1) |->
                     [node |-> keys[k],
                      fx |-> nl[keys[k]][1],
                      fy |-> nl[keys[k]][2],
                      mz |-> nl[keys[k]][3],
                      col |-> 0]],
        raised |-> bad # {}]

\* for ele_id, point_loads in beam_point_loads.items():
\*   for pos_ratio, fx, fy in point_loads:
\*     ops.eleLoad('-ele', ele_id, '-type', '-beamPoint', fy, pos_ratio, fx, pos_ratio)
BeamPointLoads(bpl) ==
    LET keys == SortedKeys(bpl)
    IN Flatten([k \in DOMAIN keys |->
            [p \in DOMAIN bpl[keys[k]] |->
                [ele |-> keys[k], type |-> "beamPoint",
                 fy |-> bpl[keys[k]][p][3],
                 x |-> bpl[keys[k]][p][1],
                 fx |-> bpl[keys[k]][p][2]]]])

\* everything after the node loop, shared by analyze_frame_with_ops and
\* SteelFrameAnalyzer.analyze_frame (the two bodies are the same text):
\* fix, elements, loads, analyze.  A raise leaves the domain as built so far.
SolveOn(nodes, floors, total_bays, E, default_load, sw, es, bl, nl, bpl, hsd) ==
    LET elements == OpsElements(floors, total_bays, E, es, hsd)
        cols == ElementIdsOf(elements, "column")
        beams == ElementIdsOf(elements, "beam")
        uniform == BeamUniformLoads(beams, default_load, sw,
                                    es, bl, hsd)
        selfw == ColumnSelfWeightLoads(nodes, elements, cols,
                                       sw, es, hsd)
        user == UserNodalLoads(nodes, nl)
    IN [domain |->
            [nodes |-> nodes,
             fixes |-> OpsFixes(total_bays + 1),
             elements |-> elements,
             eleLoads |-> IF user.raised THEN uniform
                          ELSE uniform \o BeamPointLoads(bpl),
             nodalLoads |-> selfw \o user.calls,
             analyzed |-> ~user.raised,
             analyze_result |-> 0],
        raised |-> user.raised,
        column_elements |-> cols,
        beam_elements |-> beams]

\* current_analysis_data = None
NoAnalysisData ==
    [valid |-> FALSE, spans |-> <<>>, heights |-> <<>>, height |-> 0, floors |-> 0,
     E |-> 0, steel_grade |-> "", default_load |-> 0, include_self_weight |-> FALSE,
     column_elements |-> <<>>, beam_elements |-> <<>>]

\* analyze_frame_with_ops (src/model/structural_analysis.py)
analyze_frame_with_ops(span_list, height_list, steel_grade, default_load, sw, es, bl, nl, bpl, file) ==
    LET floors == Len(height_list)
        E == get_material_properties(steel_grade)
        s == SolveOn(OpsNodes(span_list, height_list), floors, Len(span_list), E,
                     default_load, sw, es, bl,
                     nl, bpl, load_h_steel_data(file))
    IN [domain |-> s.domain,
        raised |-> s.raised,
        analysis_data |->
            [valid |-> TRUE, spans |-> span_list, heights |-> height_list,
             height |-> 0, floors |-> floors, E |-> E, steel_grade |-> steel_grade,
             default_load |-> default_load,
             include_self_weight |-> sw,
             column_elements |-> s.column_elements,
             beam_elements |-> s.beam_elements]]

\* SteelFrameAnalyzer.analyze_frame (src/model/steel_frame_analyzer.py); the
\* override maps and the catalog are the object's fields
analyze_frame(span_list, height, floors, steel_grade, default_load, sw, self_element_steels, self_beam_loads, self_node_loads, self_beam_point_loads, self_h_steel_data) ==
    LET E == get_material_properties(steel_grade)
        s == SolveOn(TkOpsNodes(span_list, height, floors), floors, Len(span_list), E,
                     default_load, sw, self_element_steels,
                     self_beam_loads, self_node_loads, self_beam_point_loads,
                     self_h_steel_data)
    IN [domain |-> s.domain,
        raised |-> s.raised,
        column_elements |-> s.column_elements,
        beam_elements |-> s.beam_elements,
        analysis_data |->
            [valid |-> TRUE, spans |-> span_list, heights |-> <<>>,
             height |-> height, floors |-> floors, E |-> E,
             steel_grade |-> steel_grade, default_load |-> default_load,
             include_self_weight |-> sw,
             column_elements |-> <<>>, beam_elements |-> <<>>]]

----------------------------------------------------------------------------
(* Direct calls of the topology functions *)

\* 1.0 * 1.3 + 5.0 * 1.5 kN/m, the sidebar's default combination
DefaultCombinedLoad == (10 * 13 + 50 * 15) * 10000

\* history of override edits: op is "none", "set", "reset" or "set_reset" (a
\* reset of the key whose set, from absence, was the operation before);
\* `before` holds the four override maps before the edit (before the set, for
\* "set_reset")
NoHist == [op |-> "none", map |-> "", key |-> 0, absent |-> FALSE, before |-> <<>>]

\* no direct call of a library function
NoCall == [fn |-> "", done |-> FALSE]

\* st.session_state.model_data before the first generation
InitialModelData ==
    [nodes |-> <<>>, elements |-> <<>>, supports |-> <<>>,
     spans |-> <<6, 9>>, heights |-> <<4, 3>>]

\* the sidebar's initial widget values (texts in mm, loads in 0.1 kN/m,
\* factors in tenths)
InitialSidebar ==
    [spans_str |-> <<6000, 9000>>, height_str |-> <<4000, 3000>>,
     steel_grade |-> "Q235B",
     beam_spec |-> "HW100x100x6x8", column_spec |-> "HW100x100x6x8",
     dead_load |-> 10, live_load |-> 50,
     dead_load_factor |-> 13, live_load_factor |-> 15,
     include_self_weight |-> TRUE]

InitSession ==
    /\ sidebar = InitialSidebar
    /\ model_data = InitialModelData
    /\ ops = EmptyDomain
    /\ column_elements = <<>>
    /\ beam_elements = <<>>
    /\ current_analysis_data = NoAnalysisData
    /\ beam_loads = <<>>
    /\ element_steels = <<>>
    /\ node_loads = <<>>
    /\ beam_point_loads = <<>>
    /\ status = "init"
    /\ nops = 0
    /\ hist = NoHist
    /\ call = NoCall

TopoInit ==
    /\ app = "fn"
    /\ arg_spans \in SeqsUpTo(SpanVals, MaxBays)
    /\ arg_heights \in SeqsUpTo(HeightVals, MaxFloors)
    /\ called = {}
    /\ catalog_file = "present"
    /\ h_steel_data = load_h_steel_data("present")
    /\ InitSession

\* model_data = generate_model_data(spans, heights)
CallGenerateModelData ==
    /\ app = "fn"
    /\ "generate" \notin called
    /\ model_data' = generate_model_data(arg_spans, arg_heights)
    /\ called' = called \cup {"generate"}
    /\ status' = "returned"
    /\ UNCHANGED <<env, sidebar, ops, column_elements, beam_elements,
                   current_analysis_data, maps, nops, hist>>

\* analysis_data = analyze_frame_with_ops(spans, heights, ..., {}, {}, {}, {})
CallAnalyzeFrameWithOps ==
    /\ app = "fn"
    /\ "analyze" \notin called
    /\ \E include_self_weight \in BOOLEAN :
        LET r == analyze_frame_with_ops(arg_spans, arg_heights, "Q235B",
                                        DefaultCombinedLoad, include_self_weight,
                                        <<>>, <<>>, <<>>, <<>>, catalog_file)
        IN /\ ops' = r.domain
           /\ current_analysis_data' = r.analysis_data
           /\ status' = IF r.raised THEN "raised" ELSE "returned"
    /\ called' = called \cup {"analyze"}
    /\ UNCHANGED <<env, sidebar, model_data, column_elements, beam_elements,
                   maps, nops, hist>>

TopoNext == CallGenerateModelData \/ CallAnalyzeFrameWithOps

SpecTopo == TopoInit /\ [][TopoNext]_vars

----------------------------------------------------------------------------
(* Stability factor (structural_analysis.phi_gb50017) *)

\* fixed point of phi and of the normalized slenderness: 1.0 is Scale
Scale == 10 ^ 4

RECURSIVE SqrtBetween(_, _, _)
\* the largest r in lo..hi with r * r <= n
SqrtBetween(n, lo, hi) ==
    IF lo >= hi THEN lo
    ELSE LET mid == (lo + hi + 1) \div 2
         IN IF mid * mid <= n THEN SqrtBetween(n, mid, hi)
            ELSE SqrtBetween(n, lo, mid - 1)

\* math.sqrt, rounded down, for 0 <= n < 2^31
MathSqrt(n) == SqrtBetween(n, 0, 46340)

\* lambda_bar = (lambda_val / math.pi) * math.sqrt(fy / E), in 1e-4:
\* fy / E in 1e-10, its root in 1e-5, pi as 3.1416; E in MPa, a multiple of 1000
LambdaBar(lambda_val, fy, E) ==
    LET root == MathSqrt(((fy * 10 ^ 6) \div (E \div 1000)) * 10)
    IN (lambda_val * root * 1000) \div 31416

\* alpha_dict, in 1e-2
AlphaDict == [a |-> 21, b |-> 34, c |-> 49, d |-> 76]

\* phi_prime = 0.5 * (1 + alpha * (lambda_bar - 0.215) + lambda_bar ** 2)
PhiPrime(lambda_bar, alpha) ==
    (Scale + (alpha * (lambda_bar - 2150)) \div 100
           + (lambda_bar * lambda_bar) \div Scale) \div 2

\* mutant: a negative discriminant is always clamped to zero
NegativeDiscriminantClamped(d11) == [raised |-> FALSE, value |-> 0]

\* the branch taken for discriminant < 0 (d11 is the discriminant in 1e-11):
\* if discriminant > -1e-10: discriminant = 0, else: raise ValueError
NegativeDiscriminant(d11) ==
    IF d11 > 0 - 10 THEN [raised |-> FALSE, value |-> 0]
    ELSE [raised |-> TRUE, value |-> d11]

\* what phi_gb50017 returns or raises: phi in 1e-4, with lambda_bar (1e-4) and
\* the discriminant (1e-8) it computed on the way
PhiOne == [raised |-> FALSE, phi |-> Scale, lambda_bar |-> 0, discriminant |-> 0]
PhiRaised == [raised |-> TRUE, phi |-> 0, lambda_bar |-> 0, discriminant |-> 0]

\* mutant: no plateau, the imperfection term starts at lambda_bar = 0
phi_gb50017_no_plateau(lambda_val, section_class, fy, E) ==
    IF section_class \notin DOMAIN AlphaDict THEN PhiRaised
    ELSE LET lambda_bar == LambdaBar(IF lambda_val < 0 THEN 0 ELSE lambda_val, fy, E)
             phi_prime == (Scale + (AlphaDict[section_class] * lambda_bar) \div 100
                           + (lambda_bar * lambda_bar) \div Scale) \div 2
             discriminant == phi_prime * phi_prime - lambda_bar * lambda_bar
             phi == (Scale * Scale) \div (phi_prime + MathSqrt(discriminant))
         IN [raised |-> FALSE, phi |-> IF phi < Scale THEN phi ELSE Scale,
             lambda_bar |-> lambda_bar, discriminant |-> discriminant]

\* mutant: the root is subtracted in the denominator
phi_gb50017_minus_root(lambda_val, section_class, fy, E) ==
    IF lambda_val <= 0 THEN PhiOne
    ELSE IF section_class \notin DOMAIN AlphaDict THEN PhiRaised
    ELSE LET lambda_bar == LambdaBar(lambda_val, fy, E)
             phi_prime == PhiPrime(lambda_bar, AlphaDict[section_class])
             discriminant == phi_prime * phi_prime - lambda_bar * lambda_bar
         IN IF lambda_bar <= 2150 THEN [PhiOne EXCEPT !.lambda_bar = lambda_bar]
            ELSE [raised |-> FALSE,
                  phi |-> (Scale * Scale) \div (phi_prime - MathSqrt(discriminant)),
                  lambda_bar |-> lambda_bar, discriminant |-> discriminant]

\* phi_gb50017(lambda_val, section_class, fy, E)
phi_gb50017(lambda_val, section_class, fy, E) ==
    IF lambda_val <= 0 THEN PhiOne
    ELSE IF section_class \notin DOMAIN AlphaDict THEN PhiRaised
    ELSE LET lambda_bar == LambdaBar(lambda_val, fy, E)
             phi_prime == PhiPrime(lambda_bar, AlphaDict[section_class])
             discriminant == phi_prime * phi_prime - lambda_bar * lambda_bar
             guard == IF discriminant < 0
                      THEN NegativeDiscriminant(discriminant * 1000)
                      ELSE [raised |-> FALSE, value |-> discriminant]
             phi == (Scale * Scale) \div (phi_prime + MathSqrt(guard.value))
         IN IF lambda_bar <= 2150 THEN [PhiOne EXCEPT !.lambda_bar = lambda_bar]
            ELSE IF guard.raised
                 THEN [PhiRaised EXCEPT !.lambda_bar = lambda_bar,
                                        !.discriminant = discriminant]
            ELSE [raised |-> FALSE,
                  phi |-> IF phi < Scale THEN phi ELSE Scale,
                  lambda_bar |-> lambda_bar, discriminant |-> discriminant]

----------------------------------------------------------------------------
(* Column stability check (calculate_column_stability_check and the inline  *)
(* computation of perform_verification).  Forces in kN and kN m, A_net in  *)
(* mm2, Wx_net in 100 mm3, f in MPa, phi in 1e-4, ratios in 1e-3.          *)

\* float('inf') / a finite ratio
Infinite == [inf |-> TRUE, value |-> 0]
Finite(v) == [inf |-> FALSE, value |-> v]

\* (math.pi ** 2 * E * A_net_mm2) / (lambda ** 2) with E = 2.06e5, in kN;
\* lambda = 0 raises ZeroDivisionError (the caller handles it)
EulerLoad(A_net, lambda) ==
    (((98696 * 206) \div 10000) * A_net) \div (lambda * lambda)

\* mutant: the member has buckled only when the Euler load is exceeded
BuckledStrict(N_e, N) == N_e < N

\* if N_ex <= N: ratio = float('inf')
Buckled(N_e, N) == N_e <= N

\* N / (phi * A_net_mm2 * f)
AxialTerm(N, phi, A_net, f) ==
    (((((N * 10 ^ 6) \div A_net) * 100) \div phi) * 100) \div f

\* bending stress M / Wx_net_mm3 in 1e-3 MPa
BendingStress(M, Wx_net) == (M * 10 ^ 7) \div Wx_net

\* in-plane: term1 + (beta_mx * M) / (gamma_x * Wx_net * f * (1 - 0.8 * N / N_ex))
\* with beta_mx = 1.0 and gamma_x = 1.05
RatioIn(N, M, A_net, Wx_net, phi_x, f, N_ex) ==
    IF Buckled(N_ex, N) THEN Infinite
    ELSE LET reduction == 1000 - (800 * N) \div N_ex
             term2 == (((((BendingStress(M, Wx_net) * 100) \div 105) * 10) \div f)
                        * 100) \div reduction
         IN Finite(AxialTerm(N, phi_x, A_net, f) + term2)

\* out-of-plane: term1_out + (beta_ty * M) / denominator with
\* denominator = (eta + (1 - eta) * phi_b) * Wx_net * f * (1 - N / N_ey),
\* eta = 0.0, phi_b = 1.0, beta_ty = 1.0; denominator <= 0 gives float('inf')
RatioOut(N, M, A_net, Wx_net, phi_y, f, N_ey) ==
    IF Buckled(N_ey, N) THEN Infinite
    ELSE LET reduction == 1000 - (1000 * N) \div N_ey
         IN IF reduction <= 0 THEN Infinite
            ELSE Finite(AxialTerm(N, phi_y, A_net, f)
                        + ((((BendingStress(M, Wx_net) * 10) \div f) * 100)
                            \div reduction))

\* calculate_column_stability_check(axial_force_kN, moment_kN_m, A_net_mm2,
\* Wx_net_mm3, phi_x, phi_y, f, lambda_x): N_ex and N_ey are both computed
\* from lambda_x
calculate_column_stability_check(N, M, A_net, Wx_net, phi_x, phi_y, f, lambda_x) ==
    LET N_ex == EulerLoad(A_net, lambda_x)
        N_ey == EulerLoad(A_net, lambda_x)
    IN [ratio_in |-> RatioIn(N, M, A_net, Wx_net, phi_x, f, N_ex),
        ratio_out |-> RatioOut(N, M, A_net, Wx_net, phi_y, f, N_ey)]

\* the inline computation of perform_verification: N_ex from lambda_x, N_ey
\* from lambda_y
InlineColumnCheck(N, M, A_net, Wx_net, phi_x, phi_y, f, lambda_x, lambda_y) ==
    LET N_ex == EulerLoad(A_net, lambda_x)
        N_ey == EulerLoad(A_net, lambda_y)
    IN [ratio_in |-> RatioIn(N, M, A_net, Wx_net, phi_x, f, N_ex),
        ratio_out |-> RatioOut(N, M, A_net, Wx_net, phi_y, f, N_ey)]

\* f = round(fy / 1.1 / 5) * 5
DesignStrength(fy) == (((fy * 100) \div 11 + 25) \div 50) * 5

\* fv = round(0.58 * f / 5) * 5
ShearStrength(f) == (((58 * f) \div 10 + 25) \div 50) * 5

\* the four lookups perform_verification makes for a member
SectionOf(spec, hsd) ==
    [properties |-> get_steel_properties(spec, hsd),
     geometry |-> get_steel_geometry(spec, hsd),
     modulus |-> get_steel_section_modulus(spec, hsd),
     radii |-> get_steel_radii_of_gyration(spec, hsd)]

\* calculate_beam_strength_check: strength_ratio = (N / A_net + M / (gamma_x
\* * Wx_net)) / f and shear_ratio = V / (Aw * fv), in 1e-3
calculate_beam_strength_check(N, M, V, A_net, Wx_net, Aw, f, fv) ==
    [strength_ratio |->
        ((N * 10 ^ 6) \div A_net + (BendingStress(M, Wx_net) * 100) \div 105) \div f,
     shear_ratio |-> ((V * 10 ^ 6) \div Aw) \div fv]

\* one pass of the beam loop of perform_verification: member forces N, M, V,
\* net_to_gross_ratio in percent
VerifyBeam(beam_spec, hsd, N, M, V, fy, net_to_gross_ratio) ==
    LET sec == SectionOf(beam_spec, hsd)
        f == DesignStrength(fy)
        A_net == (sec.properties.area * net_to_gross_ratio) \div 100
        Wx_net == (sec.modulus.wx * net_to_gross_ratio) \div 100
        Aw == sec.geometry.h * sec.geometry.tw
    IN [failed |-> FALSE, section |-> sec, A_net |-> A_net, Wx_net |-> Wx_net,
        ratios |-> calculate_beam_strength_check(N, M, V, A_net, Wx_net, Aw,
                                                 f, ShearStrength(f))]

\* one pass of the column loop of perform_verification: column length L in m,
\* effective length factors in tenths; an exception (a division by a zero
\* slenderness, a negative discriminant) is caught and reported as a failed
\* member
VerifyColumn(col_spec, hsd, N, M, L, k_in, k_out, fy, net_to_gross_ratio) ==
    LET sec == SectionOf(col_spec, hsd)
        f == DesignStrength(fy)
        A_net == (sec.properties.area * net_to_gross_ratio) \div 100
        Wx_net == (sec.modulus.wx * net_to_gross_ratio) \div 100
        lambda_x == (L * k_in * 1000) \div sec.radii.rx
        lambda_y == (L * k_out * 1000) \div sec.radii.ry
        phi_x == phi_gb50017(lambda_x, "b", fy, 206000)
        phi_y == phi_gb50017(lambda_y, "c", fy, 206000)
        failed == phi_x.raised \/ phi_y.raised \/ lambda_x = 0 \/ lambda_y = 0
    IN [failed |-> failed, section |-> sec, A_net |-> A_net, Wx_net |-> Wx_net,
        lambda_x |-> lambda_x, lambda_y |-> lambda_y,
        ratios |-> IF failed THEN [ratio_in |-> Infinite, ratio_out |-> Infinite]
                   ELSE InlineColumnCheck(N, M, A_net, Wx_net, phi_x.phi, phi_y.phi,
                                          f, lambda_x, lambda_y)]

----------------------------------------------------------------------------
(* Direct calls of the section provider and of the code-check functions *)

\* everything but `call`
session == <<app, arg_spans, arg_heights, catalog_file, h_steel_data, called,
             sidebar, topo, maps, status, nops, hist>>

\* grade labels: the two of the tables and three that are in neither
Grades == {"Q235B", "Q355B", "Q345B", "q235b", ""}

MaterialCalls ==
    {[fn |-> f, done |-> FALSE, grade |-> g] :
        f \in {"get_material_properties", "get_steel_yield_strength"},
        g \in Grades}

\* the call returns `result`
Return(result) ==
    /\ call' = [fn |-> call.fn, done |-> TRUE, args |-> call, result |-> result]
    /\ UNCHANGED session

Pending(fn) == app = "check" /\ ~call.done /\ call.fn = fn

\* slenderness values: negative, zero, around the end of the plateau
\* (lambda_bar = 0.215 is lambda = 20.0 for fy = 235 and 16.3 for fy = 355)
\* and up to 180
Lambdas == {0 - 10, 0, 1, 10, 16, 17, 19, 20, 21, 40, 80, 120, 150, 180}
SectionClasses == {"a", "b", "c", "d", "e"}

\* two calls of phi_gb50017 that differ in the slenderness only
PhiCalls ==
    {[fn |-> "phi_gb50017", done |-> FALSE, lambda1 |-> l1, lambda2 |-> l2,
      section_class |-> sc, fy |-> fy, E |-> 206000] :
        l1 \in Lambdas, l2 \in Lambdas, sc \in SectionClasses, fy \in {235, 355}}

\* discriminants in 1e-11 around the tolerance -1e-10
DiscriminantCalls ==
    {[fn |-> "negative_discriminant", done |-> FALSE, d11 |-> d] :
        d \in {0 - 1, 0 - 5, 0 - 9, 0 - 10, 0 - 11, 0 - 1000}}

\* phi_gb50017(lambda1, ...) and phi_gb50017(lambda2, ...)
CallPhi ==
    /\ Pending("phi_gb50017")
    /\ Return(<<phi_gb50017(call.lambda1, call.section_class, call.fy, call.E),
                phi_gb50017(call.lambda2, call.section_class, call.fy, call.E)>>)

\* the branch of phi_gb50017 for a negative discriminant
CallNegativeDiscriminant ==
    /\ Pending("negative_discriminant")
    /\ Return(NegativeDiscriminant(call.d11))

\* member forces, net sections <<A_net, Wx_net>> and slenderness pairs
\* <<lambda_x, lambda_y>> of the column checks
AxialForces == {0, 100, 143, 200, 413, 500, 1500}
Moments == {0, 50}
NetSections == {<<1834, 642>>, <<5400, 4012>>}
Slendernesses == {<<50, 50>>, <<95, 161>>, <<161, 95>>, <<80, 120>>}

ColumnCheckCalls ==
    {[fn |-> "column_check", done |-> FALSE, N |-> n, M |-> m,
      A_net |-> sec[1], Wx_net |-> sec[2], fy |-> fy,
      lambda_x |-> sl[1], lambda_y |-> sl[2]] :
        n \in AxialForces, m \in Moments, sec \in NetSections,
        sl \in Slendernesses, fy \in {235, 355}}

\* the same member checked by calculate_column_stability_check and by the
\* inline computation, with phi_x (class b) and phi_y (class c) as
\* perform_verification computes them
CallColumnCheck ==
    /\ Pending("column_check")
    /\ LET f == DesignStrength(call.fy)
           phi_x == phi_gb50017(call.lambda_x, "b", call.fy, 206000).phi
           phi_y == phi_gb50017(call.lambda_y, "c", call.fy, 206000).phi
       IN Return([function |-> calculate_column_stability_check(
                                  call.N, call.M, call.A_net, call.Wx_net,
                                  phi_x, phi_y, f, call.lambda_x),
                  inline |-> InlineColumnCheck(
                                  call.N, call.M, call.A_net, call.Wx_net,
                                  phi_x, phi_y, f, call.lambda_x, call.lambda_y)])

\* section names looked up: two of the catalog and two absent from it
LookupNames == {"HW100x100x6x8", "HW250x250x9x14", "HW999x999x9x9", ""}

LookupCalls ==
    {[fn |-> f, done |-> FALSE, dimension |-> d] :
        f \in {"lookup", "tk_lookup"}, d \in LookupNames}

\* the four accessors of structural_analysis on the loaded spreadsheet, with
\* the number of not-found messages printed
CallLookup ==
    /\ Pending("lookup")
    /\ Return([section |-> SectionOf(call.dimension, h_steel_data),
               warnings |-> IF NotFoundWarning(call.dimension, h_steel_data)
                            THEN 4 ELSE 0])

\* SteelFrameAnalyzer.get_steel_properties on the embedded table (catalog file
\* missing), with the warning box
CallTkGetSteelProperties ==
    /\ Pending("tk_lookup")
    /\ LET hsd == tk_load_h_steel_data("missing")
       IN Return([properties |-> get_steel_properties(call.dimension, hsd),
                  warned |-> NotFoundWarning(call.dimension, hsd)])

SolveCalls ==
    {[fn |-> "solve", done |-> FALSE, dimension |-> d, include_self_weight |-> sw] :
        d \in LookupNames, sw \in BOOLEAN}

\* analyze_frame_with_ops([6], [4], ...) with every element assigned the
\* section name of the call
CallSolveWithSection ==
    /\ Pending("solve")
    /\ LET r == analyze_frame_with_ops(<<6>>, <<4>>, "Q235B", DefaultCombinedLoad,
                                       call.include_self_weight,
                                       [e \in 1..3 |-> call.dimension],
                                       <<>>, <<>>, <<>>, catalog_file)
       IN Return([raised |-> r.raised, domain |-> r.domain])

VerifyCalls ==
    {[fn |-> "verify", done |-> FALSE, spec |-> d, N |-> n, M |-> 50, V |-> 80,
      L |-> l, fy |-> fy, net_to_gross_ratio |-> ntg] :
        d \in LookupNames, n \in {100, 500}, l \in {0, 3, 4}, fy \in {235, 355},
        ntg \in {85, 100}}

\* the code check of one beam and one column of the section name of the call,
\* with the sidebar's effective length factors 1.0
CallVerify ==
    /\ Pending("verify")
    /\ Return([beam |-> VerifyBeam(call.spec, h_steel_data, call.N, call.M, call.V,
                                   call.fy, call.net_to_gross_ratio),
               column |-> VerifyColumn(call.spec, h_steel_data, call.N, call.M,
                                       call.L, 10, 10, call.fy,
                                       call.net_to_gross_ratio)])

\* signed member forces handed to the two ratio functions
SignedForces == {0 - 500, 0 - 100, 0, 100, 500}
SignedMoments == {0 - 50, 0, 50}
SignedShears == {0 - 80, 80}

RatioCalls ==
    {[fn |-> "ratios", done |-> FALSE, N |-> n, M |-> m, V |-> v] :
        n \in SignedForces, m \in SignedMoments, v \in SignedShears}

\* calculate_beam_strength_check and calculate_column_stability_check called
\* with the forces as given and with their magnitudes, for the net section of
\* HW100x100x6x8 (Aw = 100 * 6), f = 215, fv = 125, lambda_x = 95
CallRatioFunctions ==
    /\ Pending("ratios")
    /\ LET mag(x) == IF x < 0 THEN 0 - x ELSE x
           phi_x == phi_gb50017(95, "b", 235, 206000).phi
           phi_y == phi_gb50017(161, "c", 235, 206000).phi
       IN Return([beam |-> calculate_beam_strength_check(
                              call.N, call.M, call.V, 1834, 642, 600, 215, 125),
                  beam_magnitudes |-> calculate_beam_strength_check(
                              mag(call.N), mag(call.M), mag(call.V),
                              1834, 642, 600, 215, 125),
                  column |-> calculate_column_stability_check(
                              call.N, call.M, 1834, 642, phi_x, phi_y, 215, 95),
                  column_magnitudes |-> calculate_column_stability_check(
                              mag(call.N), mag(call.M), 1834, 642,
                              phi_x, phi_y, 215, 95)])

\* E = get_material_properties(grade)
CallGetMaterialProperties ==
    /\ Pending("get_material_properties")
    /\ Return(get_material_properties(call.grade))

\* fy = get_steel_yield_strength(grade)
CallGetSteelYieldStrength ==
    /\ Pending("get_steel_yield_strength")
    /\ Return(get_steel_yield_strength(call.grade))

----------------------------------------------------------------------------
(* The streamlit page (src/test-streamlit.py, main) *)

\* texts the user types into the two sidebar fields (mm); <<>> stands for a
\* text with a token float() rejects (the empty text splits into [''])
SpansTexts == {<<6000>>, <<6000, 9000>>, <<>>}
HeightTexts == {<<4000>>, <<4000, 3000>>}

\* values the user enters in the edit widgets
LoadVals == {0, 5000000}
EditSections == {"HW200x200x8x12", "HW250x250x9x14"}
NodeLoadVals == {<<0, 0 - 10000000, 0>>}
\* position ratios in percent, with fx and fy
PointLoadVals ==
    {<<pos, 0, 0 - 10000000>> : pos \in {0 - 10, 0, 50, 100, 150}}

\* [float(x.strip()) / 1000 for x in text.split(',')]: raises ValueError on a
\* token that is no number
ParseList(text) ==
    IF text = <<>> THEN [ok |-> FALSE, list |-> <<>>]
    ELSE [ok |-> TRUE, list |-> [k \in DOMAIN text |-> text[k] \div 1000]]

\* mutant: the live load enters the combination unfactored
CombinedLoadLiveUnfactored(sb) ==
    (sb.dead_load * sb.dead_load_factor + sb.live_load * 10) * 10000

\* combined_load = dead_load * dead_load_factor + live_load * live_load_factor
\* (0.1 kN/m times tenths gives 0.01 kN/m; times 10000 gives 1e-6 kN/m)
CombinedLoad(sb) ==
    (sb.dead_load * sb.dead_load_factor + sb.live_load * sb.live_load_factor) * 10000

\* main() reads h_steel_data['Dimension'] for the sidebar's select boxes on
\* every run: with h_steel_data None the run raises before any button
StPageRuns == app = "streamlit" /\ h_steel_data.loaded /\ nops < MaxOps

\* a sidebar widget is changed; the page reruns with no button pressed
StEditSidebar ==
    /\ StPageRuns
    /\ \/ \E t \in SpansTexts : sidebar' = [sidebar EXCEPT !.spans_str = t]
       \/ \E t \in HeightTexts : sidebar' = [sidebar EXCEPT !.height_str = t]
       \/ \E n \in EditSections : sidebar' = [sidebar EXCEPT !.beam_spec = n]
       \/ \E n \in EditSections : sidebar' = [sidebar EXCEPT !.column_spec = n]
       \/ sidebar' = [sidebar EXCEPT !.include_self_weight = ~@]
    /\ sidebar' # sidebar
    /\ nops' = nops + 1
    /\ hist' = NoHist
    /\ UNCHANGED <<env, called, topo, maps, status>>

\* for elem in model_data['elements']: element_steels[elem['id']] = beam_spec
\* or column_spec
RECURSIVE InitSections(_, _, _, _)
InitSections(es, elements, beam_spec, column_spec) ==
    IF elements = <<>> THEN es
    ELSE InitSections(
            Put(es, elements[1].id,
                IF elements[1].type = "beam" THEN beam_spec ELSE column_spec),
            Tail(elements), beam_spec, column_spec)

\* button "生成模型"
StGenerateModel ==
    /\ StPageRuns
    /\ LET sp == ParseList(sidebar.spans_str)
           ht == ParseList(sidebar.height_str)
       IN IF ~sp.ok \/ ~ht.ok
          THEN /\ status' = "generate_error"
               /\ UNCHANGED <<model_data, element_steels>>
          ELSE LET md == generate_model_data(sp.list, ht.list)
               IN /\ model_data' = md
                  /\ element_steels' = InitSections(element_steels, md.elements,
                                          sidebar.beam_spec, sidebar.column_spec)
                  /\ status' = "generated"
    /\ nops' = nops + 1
    /\ hist' = NoHist
    /\ UNCHANGED <<env, called, sidebar, ops, column_elements, beam_elements,
                   current_analysis_data, beam_loads, node_loads, beam_point_loads>>

\* button "更新单元 ... 参数": only beams are offered for selection
StUpdateElement ==
    /\ StPageRuns
    /\ model_data.elements # <<>>
    /\ \E k \in DOMAIN model_data.elements, new_load \in LoadVals, new_section \in EditSections :
        /\ model_data.elements[k].type = "beam"
        /\ beam_loads' = Put(beam_loads, model_data.elements[k].id, new_load)
        /\ element_steels' = Put(element_steels, model_data.elements[k].id, new_section)
    /\ status' = "element_updated"
    /\ nops' = nops + 1
    /\ hist' = NoHist
    /\ UNCHANGED <<env, called, sidebar, topo, node_loads, beam_point_loads>>

\* button "更新节点 ... 荷载": only nodes with z > 0 are offered
StUpdateNode ==
    /\ StPageRuns
    /\ model_data.elements # <<>>
    /\ \E key \in DOMAIN model_data.nodes, new \in NodeLoadVals :
        /\ model_data.nodes[key][4] > 0
        /\ node_loads' = Put(node_loads, model_data.nodes[key][1], new)
    /\ status' = "node_updated"
    /\ nops' = nops + 1
    /\ hist' = NoHist
    /\ UNCHANGED <<env, called, sidebar, topo, beam_loads, element_steels, beam_point_loads>>

\* mutant: the copy handed to the solve is a new, empty dict
DictCopyEmpty(map) == <<>>

\* dict.copy()
DictCopy(map) == [k \in DOMAIN map |-> map[k]]

\* what ops.analyze(1) returns: 0, or a negative code when the solver did not
\* converge
AnalyzeResults == {0, 0 - 3}

\* button "开始分析": the sidebar texts are parsed again, the three copied maps
\* and the session's beam_point_loads go to analyze_frame_with_ops, and after
\* a return the session takes the lists, the analysis data and the copies;
\* what ops.analyze(1) returned is not looked at
StAnalyze ==
    /\ StPageRuns
    /\ model_data.elements # <<>>
    /\ LET sp == ParseList(sidebar.spans_str)
           ht == ParseList(sidebar.height_str)
           es_copy == DictCopy(element_steels)
           bl_copy == DictCopy(beam_loads)
           nl_copy == DictCopy(node_loads)
       IN IF ~sp.ok \/ ~ht.ok \/ Len(ht.list) = 0
          THEN /\ status' = "analysis_error"
               /\ UNCHANGED <<ops, column_elements, beam_elements,
                              current_analysis_data, maps>>
          ELSE LET r == analyze_frame_with_ops(sp.list, ht.list, sidebar.steel_grade,
                            CombinedLoad(sidebar), sidebar.include_self_weight,
                            es_copy, bl_copy, nl_copy, beam_point_loads,
                            catalog_file)
               IN /\ \E rc \in (IF r.raised THEN {0} ELSE AnalyzeResults) :
                        ops' = [r.domain EXCEPT !.analyze_result = rc]
                  /\ IF r.raised
                     THEN /\ status' = "analysis_error"
                          /\ UNCHANGED <<column_elements, beam_elements,
                                         current_analysis_data, maps>>
                     ELSE /\ column_elements' = r.analysis_data.column_elements
                          /\ beam_elements' = r.analysis_data.beam_elements
                          /\ current_analysis_data' = r.analysis_data
                          /\ element_steels' = es_copy
                          /\ beam_loads' = bl_copy
                          /\ node_loads' = nl_copy
                          /\ UNCHANGED beam_point_loads
                          /\ status' = "analysis_complete"
    /\ nops' = nops + 1
    /\ hist' = NoHist
    /\ UNCHANGED <<env, called, sidebar, model_data>>

----------------------------------------------------------------------------
(* The tkinter analyzer (src/model/steel_frame_analyzer.py) *)

\* the frames the main window asks for: <<span_list, height, floors>>
TkFrames == {<<(<<6>>), 4, 1>>, <<(<<6, 9>>), 4, 2>>}

\* values the user enters in the dialogs
TkLoadVals == {5000000}
TkSections == {"HW250x250x9x14"}

TkRuns == app = "tk" /\ nops < MaxTkOps

\* the values a solve leaves in the object: a raise inside analyze_frame leaves
\* the element lists and current_analysis_data as they were
TkSolveResult(r) ==
    IF r.raised
    THEN [ops |-> r.domain, cols |-> column_elements, beams |-> beam_elements,
          cad |-> current_analysis_data, status |-> "analysis_error"]
    ELSE [ops |-> r.domain, cols |-> r.column_elements, beams |-> r.beam_elements,
          cad |-> r.analysis_data, status |-> "analysis_complete"]

\* reanalyze_with_current_settings with the object's maps as given: with
\* current_analysis_data None the subscript raises and the except branch
\* reports the error
reanalyze_with_current_settings(es, bl, nl, bpl) ==
    IF ~current_analysis_data.valid
    THEN [ops |-> ops, cols |-> column_elements, beams |-> beam_elements,
          cad |-> current_analysis_data, status |-> "analysis_error"]
    ELSE TkSolveResult(analyze_frame(
            current_analysis_data.spans, current_analysis_data.height,
            current_analysis_data.floors, current_analysis_data.steel_grade,
            current_analysis_data.default_load,
            current_analysis_data.include_self_weight,
            es, bl, nl, bpl, h_steel_data))

\* the object takes the result of a solve
TkTake(res) ==
    /\ ops' = res.ops
    /\ column_elements' = res.cols
    /\ beam_elements' = res.beams
    /\ current_analysis_data' = res.cad
    /\ status' = res.status

\* the main window's "analyze" command: analyze_frame with the window's
\* parameters, the returned data kept as current_analysis_data
TkAnalyze ==
    /\ TkRuns
    /\ \E frame \in TkFrames, sw \in BOOLEAN :
        TkTake(TkSolveResult(analyze_frame(frame[1], frame[2], frame[3], "Q235B",
                    DefaultCombinedLoad, sw, element_steels, beam_loads,
                    node_loads, beam_point_loads, h_steel_data)))
    /\ nops' = nops + 1
    /\ hist' = NoHist
    /\ UNCHANGED <<env, called, sidebar, model_data, maps>>

\* on_canvas_click offers the beams and columns of the object's lists that the
\* domain holds, and the nodes of the domain; the user clicks the first or the
\* last of them
Clickable(ids) ==
    LET shown == {e \in SeqToSet(ids) : e \in DOMAIN ops.elements}
    IN {e \in shown : \/ \A m \in shown : e <= m
                      \/ \A m \in shown : e >= m}

ClickableNodes ==
    {n \in DOMAIN ops.nodes : \/ n = 1
                              \/ n = Len(ops.nodes)}

\* history after a set / a reset of `key` in the map named `map`
HistSet(map, m, key) ==
    [op |-> "set", map |-> map, key |-> key, absent |-> key \notin DOMAIN m,
     before |-> maps]
HistReset(map, m, key) ==
    IF hist.op = "set" /\ hist.map = map /\ hist.key = key /\ hist.absent
    THEN [hist EXCEPT !.op = "set_reset"]
    ELSE [op |-> "reset", map |-> map, key |-> key, absent |-> key \notin DOMAIN m,
          before |-> maps]

\* modify_beam_load.save_load
TkSaveLoad ==
    /\ TkRuns
    /\ \E beam_id \in Clickable(beam_elements), new_load \in TkLoadVals :
        /\ beam_loads' = Put(beam_loads, beam_id, new_load)
        /\ hist' = HistSet("beam_loads", beam_loads, beam_id)
        /\ TkTake(reanalyze_with_current_settings(element_steels, beam_loads',
                                                  node_loads, beam_point_loads))
    /\ nops' = nops + 1
    /\ UNCHANGED <<env, called, sidebar, model_data, element_steels, node_loads, beam_point_loads>>

\* modify_beam_load.reset_load
TkResetLoad ==
    /\ TkRuns
    /\ \E beam_id \in Clickable(beam_elements) :
        /\ beam_loads' = Del(beam_loads, beam_id)
        /\ hist' = HistReset("beam_loads", beam_loads, beam_id)
        /\ TkTake(reanalyze_with_current_settings(element_steels, beam_loads',
                                                  node_loads, beam_point_loads))
    /\ nops' = nops + 1
    /\ UNCHANGED <<env, called, sidebar, model_data, element_steels, node_loads, beam_point_loads>>

\* the sections modify_element_steel offers: the catalog's, or only the
\* default when there is no catalog
SteelOptions == IF h_steel_data.loaded THEN TkSections ELSE {DefaultSection}

\* modify_element_steel.save_steel
TkSaveSteel ==
    /\ TkRuns
    /\ \E element_id \in Clickable(beam_elements) \cup Clickable(column_elements), new_steel \in SteelOptions :
        /\ element_steels' = Put(element_steels, element_id, new_steel)
        /\ hist' = HistSet("element_steels", element_steels, element_id)
        /\ TkTake(reanalyze_with_current_settings(element_steels', beam_loads,
                                                  node_loads, beam_point_loads))
    /\ nops' = nops + 1
    /\ UNCHANGED <<env, called, sidebar, model_data, beam_loads, node_loads, beam_point_loads>>

\* modify_element_steel.reset_steel
TkResetSteel ==
    /\ TkRuns
    /\ \E element_id \in Clickable(beam_elements) \cup Clickable(column_elements) :
        /\ element_steels' = Del(element_steels, element_id)
        /\ hist' = HistReset("element_steels", element_steels, element_id)
        /\ TkTake(reanalyze_with_current_settings(element_steels', beam_loads,
                                                  node_loads, beam_point_loads))
    /\ nops' = nops + 1
    /\ UNCHANGED <<env, called, sidebar, model_data, beam_loads, node_loads, beam_point_loads>>

\* add_node_load.save_node_load
TkSaveNodeLoad ==
    /\ TkRuns
    /\ \E node_id \in ClickableNodes, new \in NodeLoadVals :
        /\ node_loads' = Put(node_loads, node_id, new)
        /\ hist' = HistSet("node_loads", node_loads, node_id)
        /\ TkTake(reanalyze_with_current_settings(element_steels, beam_loads,
                                                  node_loads', beam_point_loads))
    /\ nops' = nops + 1
    /\ UNCHANGED <<env, called, sidebar, model_data, beam_loads, element_steels, beam_point_loads>>

\* add_node_load.remove_node_load and select_node_operation.remove_node_load
TkRemoveNodeLoad ==
    /\ TkRuns
    /\ \E node_id \in ClickableNodes :
        /\ node_loads' = Del(node_loads, node_id)
        /\ hist' = HistReset("node_loads", node_loads, node_id)
        /\ TkTake(reanalyze_with_current_settings(element_steels, beam_loads,
                                                  node_loads', beam_point_loads))
    /\ nops' = nops + 1
    /\ UNCHANGED <<env, called, sidebar, model_data, beam_loads, element_steels, beam_point_loads>>

\* mutant: every position ratio passes
AnyPositionRatio(pos) == FALSE

\* save_point_load: if pos < 0 or pos > 1: raise ValueError (pos in percent)
PositionRatioRejected(pos) == pos < 0 \/ pos > 100

\* add_beam_point_load.save_point_load: a position ratio outside [0, 1]
\* raises before anything is stored and the except branch reports it
TkSavePointLoad ==
    /\ TkRuns
    /\ \E beam_id \in Clickable(beam_elements), pl \in PointLoadVals :
        IF PositionRatioRejected(pl[1])
        THEN /\ status' = "validation_error"
             /\ hist' = NoHist
             /\ UNCHANGED <<topo, beam_point_loads>>
        ELSE /\ beam_point_loads' =
                    Put(beam_point_loads, beam_id,
                        Append(Get(beam_point_loads, beam_id, <<>>), pl))
             /\ hist' = HistSet("beam_point_loads", beam_point_loads, beam_id)
             /\ model_data' = model_data
             /\ TkTake(reanalyze_with_current_settings(element_steels, beam_loads,
                                                       node_loads, beam_point_loads'))
    /\ nops' = nops + 1
    /\ UNCHANGED <<env, called, sidebar, beam_loads, element_steels, node_loads>>

\* add_beam_point_load.remove_all_point_loads
TkRemoveAllPointLoads ==
    /\ TkRuns
    /\ \E beam_id \in Clickable(beam_elements) :
        /\ beam_point_loads' = Del(beam_point_loads, beam_id)
        /\ hist' = HistReset("beam_point_loads", beam_point_loads, beam_id)
        /\ TkTake(reanalyze_with_current_settings(element_steels, beam_loads,
                                                  node_loads, beam_point_loads'))
    /\ nops' = nops + 1
    /\ UNCHANGED <<env, called, sidebar, model_data, beam_loads, element_steels, node_loads>>

----------------------------------------------------------------------------
(* Result queries (structural_analysis.get_element_forces,                  *)
(* get_node_displacements; display_results and perform_verification)       *)

\* the "no result available" signal: None
NoResult == [available |-> FALSE, domain |-> EmptyDomain]

\* ops.eleResponse(element_id, 'force'): the engine answers from the domain it
\* holds, whichever solve built it; an element the domain does not hold makes
\* the engine raise and the function return None
get_element_forces(element_id) ==
    IF element_id \in DOMAIN ops.elements
    THEN [available |-> TRUE, domain |-> ops]
    ELSE NoResult

\* ops.nodeDisp(node_id), in the same way
get_node_displacements(node_id) ==
    IF node_id \in DOMAIN ops.nodes
    THEN [available |-> TRUE, domain |-> ops]
    ELSE NoResult

\* main(): the diagrams, display_results() and the button of
\* perform_verification are offered whenever current_analysis_data is set
ResultsDisplayed == app = "streamlit" /\ current_analysis_data.valid

\* the forces display_results and perform_verification show for the members
\* of the session's column and beam lists
DisplayedForces ==
    [e \in SeqToSet(column_elements) \cup SeqToSet(beam_elements) |->
        get_element_forces(e)]

\* the column length perform_verification uses for the i-th column (0-based)
\* of the column list: floor_index = i // (len(height_list) + 1), clamped to
\* the last floor; L_col_m = height_list[floor_index]
L_col_m(i, height_list) ==
    LET quotient == i \div (Len(height_list) + 1)
        floor_index == IF quotient >= Len(height_list)
                       THEN Len(height_list) - 1 ELSE quotient
    IN height_list[floor_index + 1]

\* what perform_verification takes for each member it checks: the beam loop
\* runs over the session's beam list and the column loop over its column list,
\* the section name is read from the session's element_steels at the time of
\* the check, the forces come from the engine
VerificationInputs ==
    [e \in SeqToSet(column_elements) \cup SeqToSet(beam_elements) |->
        [checked_as |-> IF e \in SeqToSet(beam_elements) THEN "beam" ELSE "column",
         spec |-> Get(element_steels, e, DefaultSection),
         forces |-> get_element_forces(e)]]

----------------------------------------------------------------------------
(* Sessions *)

\* a streamlit session: the script's first run
Init ==
    /\ app = "streamlit"
    /\ arg_spans = <<>>
    /\ arg_heights = <<>>
    /\ called = {}
    /\ catalog_file \in {"present", "missing", "unreadable"}
    /\ h_steel_data = load_h_steel_data(catalog_file)
    /\ InitSession

Next ==
    \/ StEditSidebar
    \/ StGenerateModel
    \/ StUpdateElement
    \/ StUpdateNode
    \/ StAnalyze

Spec == Init /\ [][Next]_vars

\* a streamlit session taken up after its first "生成模型" and "开始分析" with
\* the sidebar's initial values: the state these two handlers leave
FirstSolve ==
    LET md == generate_model_data(ParseList(InitialSidebar.spans_str).list,
                                  ParseList(InitialSidebar.height_str).list)
        es == InitSections(<<>>, md.elements, InitialSidebar.beam_spec,
                           InitialSidebar.column_spec)
    IN [model_data |-> md,
        element_steels |-> es,
        solve |-> analyze_frame_with_ops(
                      ParseList(InitialSidebar.spans_str).list,
                      ParseList(InitialSidebar.height_str).list,
                      InitialSidebar.steel_grade, CombinedLoad(InitialSidebar),
                      InitialSidebar.include_self_weight,
                      es, <<>>, <<>>, <<>>, "present")]

SolvedInit ==
    /\ app = "streamlit"
    /\ arg_spans = <<>>
    /\ arg_heights = <<>>
    /\ called = {}
    /\ catalog_file = "present"
    /\ h_steel_data = load_h_steel_data("present")
    /\ sidebar = InitialSidebar
    /\ model_data = FirstSolve.model_data
    /\ ops = FirstSolve.solve.domain
    /\ column_elements = FirstSolve.solve.analysis_data.column_elements
    /\ beam_elements = FirstSolve.solve.analysis_data.beam_elements
    /\ current_analysis_data = FirstSolve.solve.analysis_data
    /\ beam_loads = <<>>
    /\ element_steels = FirstSolve.element_steels
    /\ node_loads = <<>>
    /\ beam_point_loads = <<>>
    /\ status = "analysis_complete"
    /\ nops = 0
    /\ hist = NoHist
    /\ call = NoCall

SpecSolved == SolvedInit /\ [][Next]_vars

\* a tkinter session: SteelFrameAnalyzer.__init__
TkInit ==
    /\ app = "tk"
    /\ arg_spans = <<>>
    /\ arg_heights = <<>>
    /\ called = {}
    /\ catalog_file \in {"present", "missing", "unreadable"}
    /\ h_steel_data = tk_load_h_steel_data(catalog_file)
    /\ InitSession

TkNext ==
    \/ TkAnalyze
    \/ TkSaveLoad
    \/ TkResetLoad
    \/ TkSaveSteel
    \/ TkResetSteel
    \/ TkSaveNodeLoad
    \/ TkRemoveNodeLoad
    \/ TkSavePointLoad
    \/ TkRemoveAllPointLoads

SpecTk == TkInit /\ [][TkNext]_vars

FnCalls ==
    MaterialCalls \cup PhiCalls \cup DiscriminantCalls \cup ColumnCheckCalls
        \cup LookupCalls \cup SolveCalls \cup VerifyCalls \cup RatioCalls

FnInit ==
    /\ app = "check"
    /\ arg_spans = <<>>
    /\ arg_heights = <<>>
    /\ called = {}
    /\ catalog_file = "present"
    /\ h_steel_data = load_h_steel_data("present")
    /\ sidebar = InitialSidebar
    /\ model_data = InitialModelData
    /\ ops = EmptyDomain
    /\ column_elements = <<>>
    /\ beam_elements = <<>>
    /\ current_analysis_data = NoAnalysisData
    /\ beam_loads = <<>>
    /\ element_steels = <<>>
    /\ node_loads = <<>>
    /\ beam_point_loads = <<>>
    /\ status = "init"
    /\ nops = 0
    /\ hist = NoHist
    /\ call \in FnCalls

FnNext ==
    \/ CallGetMaterialProperties
    \/ CallGetSteelYieldStrength
    \/ CallPhi
    \/ CallNegativeDiscriminant
    \/ CallColumnCheck
    \/ CallLookup
    \/ CallTkGetSteelProperties
    \/ CallSolveWithSection
    \/ CallVerify
    \/ CallRatioFunctions

SpecFn == FnInit /\ [][FnNext]_vars


----------------------------------------------------------------------------
(* Topology claims, checked under SpecTopo *)

Bays == Len(arg_spans)
Floors == Len(arg_heights)
Generated == app = "fn" /\ "generate" \in called
Analyzed == app = "fn" /\ "analyze" \in called

\* ids of the preview's nodes, and the preview's elements of one type
PreviewNodeIds == {model_data.nodes[k][1] : k \in DOMAIN model_data.nodes}
PreviewIds(type) ==
    {model_data.elements[k].id :
        k \in {m \in DOMAIN model_data.elements : model_data.elements[m].type = type}}
OpsIds(kind) == {e \in DOMAIN ops.elements : ops.elements[e].kind = kind}

\* sum of the first n entries
SumFirst(s, n) == SumSeq(SubSeq(s, 1, n))

\* C1: with B >= 1 bays and F >= 1 floors, the preview and the solve both hold
\* (B+1)*(F+1) nodes and F*(B+1) + F*B elements, F*(B+1) columns and F*B beams.
C1_Counts ==
    (Bays >= 1 /\ Floors >= 1) =>
        /\ Generated =>
            /\ Cardinality(DOMAIN model_data.nodes) = (Bays + 1) * (Floors + 1)
            /\ Cardinality(PreviewNodeIds) = (Bays + 1) * (Floors + 1)
            /\ Len(model_data.elements) = Floors * (Bays + 1) + Floors * Bays
            /\ Cardinality(PreviewIds("column")) = Floors * (Bays + 1)
            /\ Cardinality(PreviewIds("beam")) = Floors * Bays
        /\ Analyzed =>
            /\ Cardinality(DOMAIN ops.nodes) = (Bays + 1) * (Floors + 1)
            /\ Cardinality(DOMAIN ops.elements) = Floors * (Bays + 1) + Floors * Bays
            /\ Cardinality(OpsIds("column")) = Floors * (Bays + 1)
            /\ Cardinality(OpsIds("beam")) = Floors * Bays

\* the scenario of the spec: 2 bays, 2 floors, 9 nodes, 10 elements
C1_Witness ==
    /\ Generated /\ Analyzed
    /\ arg_spans = <<6, 9>> /\ arg_heights = <<4, 3>>
    /\ Cardinality(DOMAIN model_data.nodes) = 9
    /\ Len(model_data.elements) = 10
    /\ Cardinality(DOMAIN ops.elements) = 10

\* C2: with B >= 1 and F >= 1, element ids are exactly 1..F*(2B+1) without gap
\* or duplicate, the columns 1..F*(B+1) and the beams F*(B+1)+1..F*(2B+1).
C2_IdRanges ==
    (Bays >= 1 /\ Floors >= 1) =>
        /\ Generated =>
            /\ PreviewIds("column") = 1..(Floors * (Bays + 1))
            /\ PreviewIds("beam") =
                  (Floors * (Bays + 1) + 1)..(Floors * (2 * Bays + 1))
            /\ Cardinality(PreviewIds("column") \cup PreviewIds("beam"))
                  = Len(model_data.elements)
        /\ Analyzed =>
            /\ OpsIds("column") = 1..(Floors * (Bays + 1))
            /\ OpsIds("beam") = (Floors * (Bays + 1) + 1)..(Floors * (2 * Bays + 1))
            /\ DOMAIN ops.elements = 1..(Floors * (2 * Bays + 1))
            /\ SeqToSet(current_analysis_data.column_elements) = OpsIds("column")
            /\ SeqToSet(current_analysis_data.beam_elements) = OpsIds("beam")
            /\ Len(current_analysis_data.column_elements) = Floors * (Bays + 1)
            /\ Len(current_analysis_data.beam_elements) = Floors * Bays

\* spans = [6, 9], heights = [4, 3]: columns 1..6, beams 7..10
C2_Witness ==
    /\ Generated /\ Analyzed
    /\ arg_spans = <<6, 9>> /\ arg_heights = <<4, 3>>
    /\ PreviewIds("column") = 1..6 /\ PreviewIds("beam") = 7..10
    /\ current_analysis_data.column_elements = <<1, 2, 3, 4, 5, 6>>
    /\ current_analysis_data.beam_elements = <<7, 8, 9, 10>>

\* C3: a call with an empty spans list or an empty heights list fails with
\* InvalidTopology and produces no nodes, no elements and no supports.
C3_InvalidTopologyRejected ==
    ((Bays = 0 \/ Floors = 0) /\ (Generated \/ Analyzed)) =>
        /\ status = "InvalidTopology"
        /\ model_data.nodes = <<>>
        /\ model_data.elements = <<>>
        /\ model_data.supports = <<>>
        /\ ops = EmptyDomain

\* C4: the node of column line i on floor j has id j*(B+1)+i+1, x equal to the
\* sum of the first i spans and height equal to the sum of the first j heights.
C4_NodeNumbering ==
    /\ Generated =>
        /\ DOMAIN model_data.nodes = (0..Bays) \X (0..Floors)
        /\ \A i \in 0..Bays, j \in 0..Floors :
              model_data.nodes[<<i, j>>] =
                  <<j * (Bays + 1) + i + 1, SumFirst(arg_spans, i), 0,
                    SumFirst(arg_heights, j)>>
    /\ Analyzed =>
        /\ DOMAIN ops.nodes = 1..((Bays + 1) * (Floors + 1))
        /\ \A i \in 0..Bays, j \in 0..Floors :
              ops.nodes[j * (Bays + 1) + i + 1] =
                  <<SumFirst(arg_spans, i), SumFirst(arg_heights, j)>>

C4_Witness ==
    /\ Generated /\ Analyzed
    /\ arg_spans = <<6, 9>> /\ arg_heights = <<4, 3>>
    /\ model_data.nodes[<<2, 1>>] = <<6, 15, 0, 4>>
    /\ ops.nodes[9] = <<15, 7>>

\* C5: column f*(B+1)+c+1 runs from line c of floor f to line c of floor f+1;
\* beam F*(B+1)+(f-1)*B+s+1 runs from line s to line s+1 of floor f >= 1; no
\* beam has an end on floor 0.
C5_Connectivity ==
    LET nid(i, j) == j * (Bays + 1) + i + 1
        colid(c, f) == f * (Bays + 1) + c + 1
        beamid(s, f) == Floors * (Bays + 1) + (f - 1) * Bays + s + 1
    IN /\ Generated =>
          /\ \A f \in 0..(Floors - 1), c \in 0..Bays :
                LET e == model_data.elements[colid(c, f)]
                IN e.id = colid(c, f) /\ e.type = "column"
                   /\ e.start = nid(c, f) /\ e.end = nid(c, f + 1)
          /\ \A f \in 1..Floors, s \in 0..(Bays - 1) :
                LET e == model_data.elements[beamid(s, f)]
                IN e.id = beamid(s, f) /\ e.type = "beam"
                   /\ e.start = nid(s, f) /\ e.end = nid(s + 1, f)
          /\ \A k \in DOMAIN model_data.elements :
                model_data.elements[k].type = "beam" =>
                    /\ model_data.elements[k].start > Bays + 1
                    /\ model_data.elements[k].end > Bays + 1
       /\ Analyzed =>
          /\ \A f \in 0..(Floors - 1), c \in 0..Bays :
                LET e == ops.elements[colid(c, f)]
                IN e.kind = "column"
                   /\ e.start_node = nid(c, f) /\ e.end_node = nid(c, f + 1)
          /\ \A f \in 1..Floors, s \in 0..(Bays - 1) :
                LET e == ops.elements[beamid(s, f)]
                IN e.kind = "beam"
                   /\ e.start_node = nid(s, f) /\ e.end_node = nid(s + 1, f)
          /\ \A k \in OpsIds("beam") :
                ops.elements[k].start_node > Bays + 1
                /\ ops.elements[k].end_node > Bays + 1

C5_Witness ==
    /\ Generated /\ Analyzed
    /\ Bays = 2 /\ Floors = 2
    /\ model_data.elements[6].start = 6 /\ model_data.elements[6].end = 9
    /\ ops.elements[10].start_node = 8 /\ ops.elements[10].end_node = 9

\* C6: the supports are exactly the floor-0 nodes 1..B+1, each restrained in
\* all three degrees of freedom; no node of a higher floor is a support.
C6_Supports ==
    /\ Generated =>
        /\ SeqToSet(model_data.supports) = 1..(Bays + 1)
        /\ Len(model_data.supports) = Bays + 1
        /\ \A i \in 0..Bays : model_data.nodes[<<i, 0>>][1] \in SeqToSet(model_data.supports)
        /\ \A i \in 0..Bays, j \in 1..Floors :
              model_data.nodes[<<i, j>>][1] \notin SeqToSet(model_data.supports)
    /\ Analyzed =>
        /\ DOMAIN ops.fixes = 1..(Bays + 1)
        /\ \A n \in DOMAIN ops.fixes : ops.fixes[n] = <<1, 1, 1>>

C6_Witness ==
    /\ Generated /\ Analyzed
    /\ Bays = 2 /\ Floors = 2
    /\ model_data.supports = <<1, 2, 3>>
    /\ DOMAIN ops.fixes = {1, 2, 3}

\* squared distance between the end points of a preview element
PreviewLength2(e) ==
    (e.end_coord[1] - e.start_coord[1]) * (e.end_coord[1] - e.start_coord[1])
    + (e.end_coord[3] - e.start_coord[3]) * (e.end_coord[3] - e.start_coord[3])

\* C7: for every accepted input, zero and negative entries included, every
\* element's end nodes exist in the topology and its length is greater than 0.
C7_ElementsWellFormed ==
    Generated =>
        \A k \in DOMAIN model_data.elements :
            LET e == model_data.elements[k]
            IN /\ e.start \in PreviewNodeIds
               /\ e.end \in PreviewNodeIds
               /\ PreviewLength2(e) > 0

----------------------------------------------------------------------------
(* Load resolution claims, checked under Spec and SpecTk *)

\* the last operation ended with a completed solve: ops holds the load case of
\* the session's maps under current_analysis_data's settings
Solved == status = "analysis_complete" /\ current_analysis_data.valid

\* the section assigned to an element and its catalog unit weight (0.1 kg/m)
Assigned(e) == Get(element_steels, e, DefaultSection)
UnitWeight(section) == SectionTable[section].G

\* the uniform loads the solve put on element e
UniformOn(e) ==
    {k \in DOMAIN ops.eleLoads :
        ops.eleLoads[k].ele = e /\ ops.eleLoads[k].type = "beamUniform"}

\* C8: every beam carries, in a solve, its override of beam_loads if it has
\* one and the solve's default load otherwise, increased by
\* unitWeight * 9.81 / 1000 of its assigned section (element_steels, else the
\* default section) exactly when self-weight is enabled; no column carries a
\* distributed load.
C8_BeamLoadResolution ==
    Solved =>
        /\ \A b \in SeqToSet(beam_elements) :
            /\ Cardinality(UniformOn(b)) = 1
            /\ \A k \in UniformOn(b) :
                0 - ops.eleLoads[k].fy =
                    (IF b \in DOMAIN beam_loads THEN beam_loads[b]
                     ELSE current_analysis_data.default_load)
                    + (IF current_analysis_data.include_self_weight
                       THEN UnitWeight(Assigned(b)) * 981 ELSE 0)
        /\ \A c \in SeqToSet(column_elements) : UniformOn(c) = {}

\* a solve with self-weight in which one beam carries its override of 5 kN/m
\* on a section of 71.8 kg/m and another the default 8.8 kN/m on 16.9 kg/m
C8_Witness ==
    /\ Solved
    /\ current_analysis_data.include_self_weight
    /\ \E b1, b2 \in SeqToSet(beam_elements) :
        /\ b1 \in DOMAIN beam_loads /\ beam_loads[b1] = 5000000
        /\ Assigned(b1) = "HW250x250x9x14"
        /\ \E k \in UniformOn(b1) : ops.eleLoads[k].fy = 0 - (5000000 + 718 * 981)
        /\ b2 \notin DOMAIN beam_loads
        /\ Assigned(b2) = "HW100x100x6x8"
        /\ \E k \in UniformOn(b2) : ops.eleLoads[k].fy = 0 - (8800000 + 169 * 981)

\* the load case and the sections a solve of the current settings resolves
\* from the four override maps m = <<beam_loads, element_steels, node_loads,
\* beam_point_loads>>
Resolved(m) ==
    LET r == analyze_frame(
                current_analysis_data.spans, current_analysis_data.height,
                current_analysis_data.floors, current_analysis_data.steel_grade,
                current_analysis_data.default_load,
                current_analysis_data.include_self_weight,
                m[2], m[1], m[3], m[4], h_steel_data)
    IN [elements |-> r.domain.elements,
        eleLoads |-> r.domain.eleLoads,
        nodalLoads |-> r.domain.nodalLoads]

\* C9: in each of the four override maps, setting an absent key and then
\* resetting it leaves the maps, and with them the loads and sections resolved
\* for every element and node, as they were before the key was set; the solve
\* that follows the reset applies exactly those; resetting an absent key
\* changes no map.
C9_ResetRestoresDefault ==
    /\ hist.op = "set_reset" =>
        /\ maps = hist.before
        /\ current_analysis_data.valid =>
            /\ Resolved(maps) = Resolved(hist.before)
            /\ Solved =>
                /\ ops.elements = Resolved(hist.before).elements
                /\ ops.eleLoads = Resolved(hist.before).eleLoads
                /\ ops.nodalLoads = Resolved(hist.before).nodalLoads
    /\ (hist.op = "reset" /\ hist.absent) => maps = hist.before

\* a beam's load override was saved and then reset: the beam carries the
\* default load again
C9_Witness ==
    /\ hist.op = "set_reset"
    /\ hist.map = "beam_loads"
    /\ Solved
    /\ hist.key \in SeqToSet(beam_elements)
    /\ hist.key \notin DOMAIN beam_loads
    /\ \E k \in UniformOn(hist.key) :
        0 - ops.eleLoads[k].fy
            = current_analysis_data.default_load
              + (IF current_analysis_data.include_self_weight
                 THEN UnitWeight(Assigned(hist.key)) * 981 ELSE 0)

\* the nodal loads the solve issued for column c
SelfWeightOf(c) == {k \in DOMAIN ops.nodalLoads : ops.nodalLoads[k].col = c}

\* squared distance between the two nodes of element e of the domain
OpsLength2(e) ==
    LET a == ops.nodes[ops.elements[e].start_node]
        b == ops.nodes[ops.elements[e].end_node]
    IN (b[1] - a[1]) * (b[1] - a[1]) + (b[2] - a[2]) * (b[2] - a[2])

MaxColumnLength == 10

\* C10: with self-weight enabled every column has exactly one nodal load
\* (0, -unitWeight * 9.81 / 1000 * length, 0), at its end node, which is its
\* top node, for the unit weight of its assigned section and the distance
\* between its nodes, and no distributed load; with self-weight disabled a
\* column contributes no load.
C10_ColumnSelfWeight ==
    Solved =>
        \A c \in SeqToSet(column_elements) :
            /\ UniformOn(c) = {}
            /\ IF current_analysis_data.include_self_weight
               THEN /\ Cardinality(SelfWeightOf(c)) = 1
                    /\ \A k \in SelfWeightOf(c) :
                        LET ld == ops.nodalLoads[k]
                        IN /\ ld.node = ops.elements[c].end_node
                           /\ ops.nodes[ops.elements[c].end_node][2]
                                > ops.nodes[ops.elements[c].start_node][2]
                           /\ ld.fx = 0 /\ ld.mz = 0
                           /\ \E length \in 0..MaxColumnLength :
                                /\ length * length = OpsLength2(c)
                                /\ ld.fy = 0 - (UnitWeight(Assigned(c)) * 981 * length)
               ELSE SelfWeightOf(c) = {}

\* a 4 m column of 49.9 kg/m carries 49.9 * 9.81 / 1000 * 4 kN downward at
\* its top node
C10_Witness ==
    /\ Solved
    /\ current_analysis_data.include_self_weight
    /\ \E c \in SeqToSet(column_elements) :
        /\ Assigned(c) = "HW200x200x8x12"
        /\ OpsLength2(c) = 16
        /\ \E k \in SelfWeightOf(c) :
            /\ ops.nodalLoads[k].node = ops.elements[c].end_node
            /\ ops.nodalLoads[k].fy = 0 - 1958076

\* the sidebar holds the scenario's loads: dead 1.0 and live 5.0 kN/m with the
\* factors 1.3 and 1.5, and the last solve took its default load from them
ScenarioLoads ==
    /\ sidebar.dead_load = 10 /\ sidebar.dead_load_factor = 13
    /\ sidebar.live_load = 50 /\ sidebar.live_load_factor = 15
    /\ current_analysis_data.default_load = CombinedLoad(sidebar)

\* the uniform load of `value` (1e-6 kN/m) is what every beam without an
\* override carries after a solve of the scenario's loads without self-weight
ScenarioResolvesTo(value) ==
    (Solved /\ ScenarioLoads /\ ~current_analysis_data.include_self_weight) =>
        \A b \in SeqToSet(beam_elements) :
            b \notin DOMAIN beam_loads =>
                \A k \in UniformOn(b) : 0 - ops.eleLoads[k].fy = value

\* C11 as stated: with self-weight disabled and no override, the combination
\* 1.0 * 1.3 + 5.0 * 1.5 resolves to exactly 6.3 kN/m for every section.
C11_ScenarioIs6300 == ScenarioResolvesTo(6300000)

\* C11 amended: with self-weight disabled and no override, the combination
\* 1.0 * 1.3 + 5.0 * 1.5 resolves to exactly 8.8 kN/m, whatever section is
\* assigned to the beam.
C11_ScenarioIs8800 == ScenarioResolvesTo(8800000)

\* a beam without override on a section other than the initial one carries
\* 8.8 kN/m after a solve without self-weight
C11_Witness ==
    /\ Solved /\ ScenarioLoads
    /\ ~current_analysis_data.include_self_weight
    /\ \E b \in SeqToSet(beam_elements) :
        /\ b \notin DOMAIN beam_loads
        /\ Assigned(b) = "HW250x250x9x14"
        /\ \E k \in UniformOn(b) : ops.eleLoads[k].fy = 0 - 8800000

----------------------------------------------------------------------------
(* Point load validation, checked under SpecTk *)

\* every stored point load has a position ratio in [0, 1] (percent)
StoredRatiosInRange ==
    \A b \in DOMAIN beam_point_loads :
        \A k \in DOMAIN beam_point_loads[b] :
            /\ beam_point_loads[b][k][1] >= 0
            /\ beam_point_loads[b][k][1] <= 100

\* a step that ends in the validation error stored nothing and solved nothing
RejectedStepChangesNothing ==
    status' = "validation_error" =>
        /\ beam_point_loads' = beam_point_loads
        /\ ops' = ops
        /\ current_analysis_data' = current_analysis_data

\* a step that stored a point load on beam hist'.key put it at the end of that
\* beam's sequence and left the other beams' sequences as they were
AcceptedStepAppends ==
    (hist'.op = "set" /\ hist'.map = "beam_point_loads") =>
        LET b == hist'.key
            old == Get(beam_point_loads, b, <<>>)
        IN /\ b \in DOMAIN beam_point_loads'
           /\ Len(beam_point_loads'[b]) = Len(old) + 1
           /\ SubSeq(beam_point_loads'[b], 1, Len(old)) = old
           /\ beam_point_loads'[b][Len(old) + 1][1] >= 0
           /\ beam_point_loads'[b][Len(old) + 1][1] <= 100
           /\ DOMAIN beam_point_loads' = DOMAIN beam_point_loads \cup {b}
           /\ \A o \in DOMAIN beam_point_loads :
                o # b => beam_point_loads'[o] = beam_point_loads[o]

\* C12: a point load with a position ratio below 0 or above 1 ends in a
\* validation error, with beam_point_loads unchanged and no re-solve, so every
\* stored point load has a ratio in [0, 1]; a ratio in [0, 1] is appended at
\* the end of its beam's sequence and no other beam's sequence changes.
C12_PointLoadValidation ==
    /\ []StoredRatiosInRange
    /\ [][RejectedStepChangesNothing /\ AcceptedStepAppends]_vars

\* a beam holds two point loads, stored one after the other
C12_Witness ==
    /\ hist.op = "set" /\ hist.map = "beam_point_loads"
    /\ hist.key \in DOMAIN beam_point_loads
    /\ Len(beam_point_loads[hist.key]) = 2
    /\ beam_point_loads[hist.key][1][1] = 50
    /\ beam_point_loads[hist.key][2][1] = 100

----------------------------------------------------------------------------
(* Section provider and code-check claims, checked under SpecFn *)

Returned(fn) == call.done /\ call.fn = fn

\* C13: a grade label outside {Q235B, Q355B} gets, without error, the values
\* of Q235B: 206e6 kN/m2 from get_material_properties and 235 from
\* get_steel_yield_strength; each of the two grades gets its own values.
C13_UnknownGradeIsQ235B ==
    /\ Returned("get_material_properties") => call.result = 206
    /\ Returned("get_steel_yield_strength") =>
        call.result = (IF call.args.grade = "Q355B" THEN 355 ELSE 235)

\* the yield strength of a label that is in neither table was asked for
C13_Witness ==
    /\ Returned("get_steel_yield_strength")
    /\ call.args.grade = "Q345B"
    /\ call.result = 235

\* C15: with the spreadsheet missing the session still holds a catalog: the
\* loader returned a table of named entries, not an absent value, so the
\* select boxes and the lookups that read it work.
C15_MissingFileGivesTable ==
    catalog_file = "missing" =>
        /\ h_steel_data.loaded
        /\ DOMAIN h_steel_data.rows # {}

\* the two results of a returned pair of phi_gb50017 calls, with their
\* slenderness
PhiResults ==
    {<<call.args.lambda1, call.result[1]>>, <<call.args.lambda2, call.result[2]>>}

ValidClass == call.args.section_class \in {"a", "b", "c", "d"}

\* C16: phi_gb50017 is exactly 1.0 for every slenderness <= 0 and for every
\* slenderness whose normalized value is <= 0.215, in each of the classes
\* a, b, c, d.
C16_PhiPlateau ==
    (Returned("phi_gb50017") /\ ValidClass) =>
        \A r \in PhiResults :
            (r[1] <= 0 \/ LambdaBar(r[1], call.args.fy, call.args.E) <= 2150) =>
                ~r[2].raised /\ r[2].phi = Scale

\* class d at a positive slenderness on the plateau and at slenderness 0
C16_Witness ==
    /\ Returned("phi_gb50017")
    /\ call.args.section_class = "d" /\ call.args.fy = 235
    /\ call.args.lambda1 = 0 /\ call.args.lambda2 = 19
    /\ call.result[2].lambda_bar > 0 /\ call.result[2].lambda_bar <= 2150
    /\ call.result[1].phi = Scale /\ call.result[2].phi = Scale

\* C17: beyond the plateau phi_gb50017 does not increase with the slenderness,
\* for every class and fixed fy and E; its result is always greater than 0
\* and at most 1.0.
C17_PhiMonotone ==
    (Returned("phi_gb50017") /\ ValidClass) =>
        /\ \A r \in PhiResults : ~r[2].raised /\ r[2].phi > 0 /\ r[2].phi <= Scale
        /\ (/\ call.result[1].lambda_bar > 2150
            /\ call.args.lambda1 <= call.args.lambda2)
                => call.result[1].phi >= call.result[2].phi

\* two slenderness values beyond the plateau with strictly decreasing phi
C17_Witness ==
    /\ Returned("phi_gb50017")
    /\ call.args.section_class = "b" /\ call.args.fy = 235
    /\ call.args.lambda1 = 40 /\ call.args.lambda2 = 120
    /\ call.result[1].lambda_bar > 2150
    /\ call.result[1].phi > call.result[2].phi
    /\ call.result[1].phi < Scale
    /\ call.result[2].phi > 0

\* C18: beyond the plateau the discriminant phi'^2 - lambda_bar^2 is
\* non-negative for every alpha of the class table, so phi_gb50017 does not
\* raise; a discriminant in (-1e-10, 0) becomes 0 and a discriminant
\* <= -1e-10 raises instead of being clamped.
C18_Discriminant ==
    /\ (Returned("phi_gb50017") /\ ValidClass) =>
        \A r \in PhiResults :
            r[2].lambda_bar > 2150 => r[2].discriminant >= 0 /\ ~r[2].raised
    /\ Returned("negative_discriminant") =>
        IF call.args.d11 > 0 - 10
        THEN ~call.result.raised /\ call.result.value = 0
        ELSE call.result.raised

\* a discriminant of exactly -1e-10 raised
C18_Witness ==
    /\ Returned("negative_discriminant")
    /\ call.args.d11 = 0 - 10
    /\ call.result.raised

\* C19: for positive A_net, slenderness, f and Wx_net and non-negative N and
\* M, the in-plane ratio is infinite exactly when N >= N_ex and the
\* out-of-plane ratio is infinite exactly when N >= N_ey, N_ex and N_ey being
\* the Euler loads the code path computes (perform_verification: from
\* lambda_x and lambda_y; calculate_column_stability_check: both from its
\* argument lambda_x); otherwise both ratios are finite.
C19_InfiniteIffBuckled ==
    Returned("column_check") =>
        LET a == call.args
            N_x == EulerLoad(a.A_net, a.lambda_x)
            N_y == EulerLoad(a.A_net, a.lambda_y)
        IN /\ call.result.inline.ratio_in.inf <=> a.N >= N_x
           /\ call.result.inline.ratio_out.inf <=> a.N >= N_y
           /\ call.result.function.ratio_in.inf <=> a.N >= N_x
           /\ call.result.function.ratio_out.inf <=> a.N >= N_x

\* the axial force equals the in-plane Euler load (413 kN) and exceeds the
\* out-of-plane one: both ratios of the inline check are infinite; and a
\* member below both loads has finite ratios
C19_Witness ==
    /\ Returned("column_check")
    /\ call.args.A_net = 1834 /\ call.args.lambda_x = 95 /\ call.args.lambda_y = 161
    /\ call.args.N = 413
    /\ EulerLoad(1834, 95) = 413
    /\ call.result.inline.ratio_in.inf
    /\ call.result.inline.ratio_out.inf

\* C20: calculate_column_stability_check and the inline computation of
\* perform_verification give the same out-of-plane ratio for the same member,
\* the out-of-plane Euler load being taken from lambda_y in both.
C20_SameOutOfPlaneRatio ==
    Returned("column_check") =>
        call.result.function.ratio_out = call.result.inline.ratio_out

\* the section name of a finished call is absent from the spreadsheet
AbsentName(d) == d \notin DOMAIN SpreadsheetTable

\* C14: a section name absent from the loaded catalog gets the same fixed
\* fallback values from every accessor (properties 0.006353, 4.72e-5, 1.6e-5,
\* 49.9; geometry 0.2, 0.2, 0.008, 0.012; section modulus 0.000756, 0.000267;
\* radii 0.0418, 0.0248) whatever the name, each accessor signals the
\* not-found warning and none raises; the solve and the code check that looked
\* the name up run to completion with these values.
C14_AbsentSectionFallback ==
    /\ (Returned("lookup") /\ AbsentName(call.args.dimension)) =>
          /\ call.result.section.properties
                = [area |-> 6353, ix |-> 4720, iy |-> 1600, weight |-> 499]
          /\ call.result.section.geometry = [h |-> 200, b |-> 200, tw |-> 8, tf |-> 12]
          /\ call.result.section.modulus = [wx |-> 7560, wy |-> 2670]
          /\ call.result.section.radii = [rx |-> 418, ry |-> 248]
          /\ call.result.warnings = 4
    /\ (Returned("tk_lookup") /\ call.args.dimension \notin DOMAIN SectionTable) =>
          /\ call.result.properties
                = [area |-> 6353, ix |-> 4720, iy |-> 1600, weight |-> 499]
          /\ call.result.warned
    /\ (Returned("solve") /\ AbsentName(call.args.dimension)) =>
          LET d == call.result.domain
              w == IF call.args.include_self_weight THEN 499 * 981 ELSE 0
          IN /\ ~call.result.raised
             /\ d.analyzed
             /\ Len(d.elements) = 3
             /\ \A e \in DOMAIN d.elements :
                    d.elements[e].A = 6353 /\ d.elements[e].Iz = 4720
             /\ Len(d.eleLoads) = 1
             /\ d.eleLoads[1].fy = 0 - (DefaultCombinedLoad + w)
             /\ Len(d.nodalLoads) = (IF call.args.include_self_weight THEN 2 ELSE 0)
             /\ \A k \in DOMAIN d.nodalLoads : d.nodalLoads[k].fy = 0 - w * 4
    /\ (Returned("verify") /\ AbsentName(call.args.spec)) =>
          LET a == call.args
              b == call.result.beam
              c == call.result.column
              A_net == (6353 * a.net_to_gross_ratio) \div 100
              Wx_net == (7560 * a.net_to_gross_ratio) \div 100
              f == DesignStrength(a.fy)
          IN /\ ~b.failed
             /\ b.ratios = calculate_beam_strength_check(
                              a.N, a.M, a.V, A_net, Wx_net, 200 * 8,
                              f, ShearStrength(f))
             /\ c.failed <=> a.L = 0
             /\ ~c.failed =>
                  /\ c.lambda_x = (a.L * 10000) \div 418
                  /\ c.lambda_y = (a.L * 10000) \div 248
                  /\ c.ratios = InlineColumnCheck(
                        a.N, a.M, A_net, Wx_net,
                        phi_gb50017(c.lambda_x, "b", a.fy, 206000).phi,
                        phi_gb50017(c.lambda_y, "c", a.fy, 206000).phi,
                        f, c.lambda_x, c.lambda_y)

\* a solve with self-weight whose elements carry a name the catalog lacks has
\* completed with the fallback area and weight
C14_Witness ==
    /\ Returned("solve")
    /\ call.args.dimension = "HW999x999x9x9"
    /\ call.args.include_self_weight
    /\ call.result.domain.analyzed
    /\ call.result.domain.elements[3].A = 6353
    /\ call.result.domain.eleLoads[1].fy = 0 - (8800000 + 489519)

\* C21: the ratio functions depend only on the magnitudes of the axial force,
\* the moment and the shear (a call with signed inputs returns what the call
\* with their magnitudes returns), and every returned ratio is the infinite
\* sentinel or a finite value >= 0.
C21_RatiosUseMagnitudes ==
    Returned("ratios") =>
        LET r == call.result
            NonNegative(x) == x.inf \/ x.value >= 0
        IN /\ r.beam = r.beam_magnitudes
           /\ r.column = r.column_magnitudes
           /\ r.beam.strength_ratio >= 0
           /\ r.beam.shear_ratio >= 0
           /\ NonNegative(r.column.ratio_in)
           /\ NonNegative(r.column.ratio_out)

\* the last operation changed an override or regenerated the topology
ChangedSinceSolve == status \in {"generated", "element_updated", "node_updated"}

\* C22: after a set of an override and after a topology regeneration, the
\* queries for element forces, node displacements and check results give the
\* "no result available" signal until the next solve completes: no result of
\* an earlier solve is returned or displayed for the changed session.
C22_NoStaleResults ==
    ChangedSinceSolve =>
        /\ ~ResultsDisplayed
        /\ \A e \in DOMAIN ops.elements : get_element_forces(e) = NoResult
        /\ \A n \in DOMAIN ops.nodes : get_node_displacements(n) = NoResult

\* C23: a solve that stops with an error after a successful solve leaves the
\* engine's domain (hence the element forces and node displacements that are
\* retrievable) as that solve left it, and the recorded analysis data, column
\* list and beam list unchanged; no query observes a wiped or partially built
\* model.
C23_FailedSolveKeepsResults ==
    [][(ops.analyzed /\ nops' = nops + 1 /\ status' = "analysis_error")
          => /\ ops' = ops
             /\ current_analysis_data' = current_analysis_data
             /\ column_elements' = column_elements
             /\ beam_elements' = beam_elements]_vars

\* C24: when the solver reports that it did not converge, the solve fails
\* (the handler reports an error), and the session does not record the
\* attempt as a completed analysis: current_analysis_data and the element
\* lists are not replaced and no "analysis complete" outcome is reported.
C24_DivergenceIsAnError ==
    [][(StAnalyze /\ ops'.analyzed /\ ops'.analyze_result # 0)
          => /\ status' = "analysis_error"
             /\ current_analysis_data' = current_analysis_data
             /\ column_elements' = column_elements
             /\ beam_elements' = beam_elements]_vars

\* C26: a solve, successful or failed, leaves the four override maps as they
\* were, so a solve that directly follows a completed solve of the same
\* inputs applies the same sections and the same loads.
C26_SolveKeepsOverrides ==
    [][StAnalyze =>
          /\ maps' = maps
          /\ (status = "analysis_complete" /\ status' = "analysis_complete"
                /\ current_analysis_data' = current_analysis_data)
                => /\ ops'.elements = ops.elements
                   /\ ops'.eleLoads = ops.eleLoads
                   /\ ops'.nodalLoads = ops.nodalLoads]_vars

\* a completed solve has applied a beam-load override and a section override
\* that are still in the session's maps
C26_Witness ==
    /\ status = "analysis_complete"
    /\ ops.analyzed
    /\ \E b \in DOMAIN beam_loads :
          /\ b \in DOMAIN ops.elements
          /\ element_steels[b] = "HW250x250x9x14"
          /\ ops.elements[b].A = 9143
          /\ \E k \in DOMAIN ops.eleLoads :
                /\ ops.eleLoads[k].ele = b
                /\ ops.eleLoads[k].type = "beamUniform"
                /\ ops.eleLoads[k].fy
                     = 0 - (beam_loads[b]
                            + (IF current_analysis_data.include_self_weight
                               THEN 718 * 981 ELSE 0))

\* C27: every check result comes from one consistent solve: for each member
\* perform_verification checks, the section it looks up is the section the
\* solve that produced the member's forces used, and the member is checked as
\* a beam or a column as that solve built it.
C27_CheckUsesSolveInputs ==
    ResultsDisplayed =>
        \A e \in DOMAIN VerificationInputs :
            LET v == VerificationInputs[e]
            IN v.forces.available =>
                  /\ get_steel_properties(v.spec, h_steel_data).area
                        = v.forces.domain.elements[e].A
                  /\ get_steel_properties(v.spec, h_steel_data).ix
                        = v.forces.domain.elements[e].Iz
                  /\ v.checked_as = v.forces.domain.elements[e].kind

\* C28: for B >= 1 bays and F >= 1 floors (positive spans and heights), the member
\* length perform_verification uses for the i-th column of the column list is
\* the height of the story the column spans, heights[i div (B+1)], which is
\* the distance between the column's end nodes.
C28_ColumnLengthIsStoryHeight ==
    (Analyzed /\ Bays >= 1 /\ Floors >= 1
       /\ \A b \in DOMAIN arg_spans : arg_spans[b] > 0
       /\ \A f \in DOMAIN arg_heights : arg_heights[f] > 0) =>
        LET cols == current_analysis_data.column_elements
            heights == current_analysis_data.heights
        IN \A k \in DOMAIN cols :
              /\ L_col_m(k - 1, heights) = heights[((k - 1) \div (Bays + 1)) + 1]
              /\ L_col_m(k - 1, heights) * L_col_m(k - 1, heights)
                    = OpsLength2(cols[k])

\* C29: for the same spans and heights, generate_model_data (the preview) and
\* analyze_frame_with_ops (the solve) give every node the same id, the same
\* coordinates and the same support status, and every element the same id,
\* the same kind and the same start and end node.
C29_PreviewMatchesSolve ==
    (Generated /\ Analyzed) =>
        /\ PreviewNodeIds = DOMAIN ops.nodes
        /\ \A key \in DOMAIN model_data.nodes :
              LET n == model_data.nodes[key]
              IN /\ ops.nodes[n[1]] = <<n[2], n[4]>>
                 /\ n[3] = 0
                 /\ (n[1] \in SeqToSet(model_data.supports))
                       <=> (n[1] \in DOMAIN ops.fixes)
        /\ DOMAIN ops.fixes \subseteq DOMAIN ops.nodes
        /\ DOMAIN model_data.elements = DOMAIN ops.elements
        /\ \A k \in DOMAIN model_data.elements :
              LET m == model_data.elements[k]
              IN /\ m.id \in DOMAIN ops.elements
                 /\ m.type = ops.elements[m.id].kind
                 /\ m.start = ops.elements[m.id].start_node
                 /\ m.end = ops.elements[m.id].end_node

\* two bays and two floors: beam 10 joins nodes 8 and 9 in the preview and in
\* the solve, and node 3 is a support in both
C29_Witness ==
    /\ Generated /\ Analyzed
    /\ arg_spans = <<6, 9>> /\ arg_heights = <<4, 3>>
    /\ model_data.elements[10].type = "beam"
    /\ model_data.elements[10].start = 8 /\ model_data.elements[10].end = 9
    /\ ops.elements[10].kind = "beam"
    /\ ops.elements[10].start_node = 8 /\ ops.elements[10].end_node = 9
    /\ 3 \in SeqToSet(model_data.supports) /\ 3 \in DOMAIN ops.fixes

\* C30: in every reachable session state every key of the beam-load map and of
\* the point-load map is the id of a beam of the current topology, every key
\* of the nodal-load map is the id of an existing node that is no support, and
\* every key of the section map is the id of an existing element.
C30_OverrideKeysExist ==
    /\ DOMAIN beam_loads \subseteq PreviewIds("beam")
    /\ DOMAIN beam_point_loads \subseteq PreviewIds("beam")
    /\ DOMAIN node_loads \subseteq PreviewNodeIds \ SeqToSet(model_data.supports)
    /\ DOMAIN element_steels \subseteq PreviewIds("beam") \cup PreviewIds("column")

====
